---- MODULE Spec2Model ----
(***************************************************************************)
(* A model of the fcode binary codec (wire.rs, ser.rs, de.rs, lib.rs).     *)
(*                                                                         *)
(* Numbers.  u64 / u128 / i64 / i128 values do not fit a model-checker     *)
(* integer, so an integer of width W is modelled exactly as the set of the *)
(* positions of its one-bits (a subset of 0..W-1; two's complement for     *)
(* signed types).  |, &, ^, << and >> are union, intersection, symmetric   *)
(* difference and translations of that set, truncated to the width the     *)
(* Rust type has.  A byte is a number in 0..255.                           *)
(*                                                                         *)
(* Decoder.  The Deserializer is the remaining input slice `input`.  The   *)
(* recursion of serde's type-directed walk is an explicit call stack       *)
(* `stack`; a SeqRead child reader is a frame of that stack holding its    *)
(* nread / nreturn counters.  Every handler of de.rs is one action.        *)
(***************************************************************************)
EXTENDS Integers, Sequences, FiniteSets, TLC

\* ------------------------------------------------------------------ bounds

\* Longest run of extra bytes appended after an encoded value.
MaxExtra == 2
\* Most bytes cut off the end of an encoded value.
MaxCut == 3

\* ------------------------------------------------------------ integer bits

\* Widths of the Rust integer types.
W8 == 8
W16 == 16
W32 == 32
W64 == 64
W128 == 128

Pow2(i) == 2 ^ i

\* The one-bits of a small natural number (n < 2^30).
Bits(n) == {i \in 0..29 : (n \div Pow2(i)) % 2 = 1}

\* The one-bits of a byte.
ByteBits(b) == {i \in 0..7 : (b \div Pow2(i)) % 2 = 1}

RECURSIVE SumPow2(_)
SumPow2(bits) ==
    IF bits = {} THEN 0
    ELSE LET i == CHOOSE x \in bits : TRUE IN Pow2(i) + SumPow2(bits \ {i})

\* `x as u8`: the low eight bits as a byte.
LowByte(bits) == SumPow2(bits \cap (0..7))

\* `x as usize` for a count that is compared with, or counted down against, a
\* buffer far shorter than 2^29: exact below 2^29, and otherwise a number with
\* the same parity that is still larger than any buffer of the model.
AsUsize(bits) ==
    SumPow2(bits \cap (0..28)) + (IF \E i \in bits : i >= 29 THEN Pow2(29) ELSE 0)

\* value << s, in a type of width w (bits shifted out are lost).
Shl(bits, s, w) == {i + s : i \in bits} \cap (0..(w - 1))

\* Logical value >> s.
Shr(bits, s) == {i - s : i \in {j \in bits : j >= s}}

\* Arithmetic value >> (w-1) of a signed value of width w: all sign bits.
SignFill(bits, w) == IF (w - 1) \in bits THEN 0..(w - 1) ELSE {}

Xor(a, b) == (a \ b) \cup (b \ a)

\* `v as i64` / `v as i128` from a narrower signed type: sign extension.
SignExtend(bits, from, to) ==
    IF (from - 1) \in bits THEN bits \cup (from..(to - 1)) ELSE bits

\* TryFrom to a narrower unsigned type of width w.
FitsUnsigned(bits, w) == \A i \in bits : i < w

\* TryFrom from a signed type of width `from` to a signed type of width w:
\* the bits from w-1 upwards are all copies of the sign bit.
FitsSigned(bits, from, w) ==
    \/ \A i \in (w - 1)..(from - 1) : i \in bits
    \/ \A i \in (w - 1)..(from - 1) : i \notin bits

\* let v = e; followed by the rest F of the function body.
Let(v, F(_)) == F(v)

\* ------------------------------------------------------------------ wire.rs

\* enum WireType
WT_Int == 0
WT_Fixed32 == 1
WT_Fixed64 == 2
WT_Sequence == 3
WT_Bytes == 4
WT_Variant == 5

\* A faulty read_wiretype that folds the reserved codes onto Int and Fixed32.
read_wiretype_folded(tagbyte) == (tagbyte % 8) % 6

read_wiretype(tagbyte) == tagbyte % 8

DropN(s, n) == SubSeq(s, n + 1, Len(s))
TakeN(s, n) == SubSeq(s, 1, n)

\* Continuation bytes of write_varint: 7 bits at a time, 0x80 on all but the last.
RECURSIVE write_varint_loop(_)
write_varint_loop(value) ==
    LET partial == LowByte(value \cap (0..6))
        rest == Shr(value, 7)
    IN  IF rest = {} THEN <<partial>>
        ELSE <<partial + 128>> \o write_varint_loop(rest)

\* A faulty write_varint that always takes the multi-byte path.
write_varint_long(tag, value) ==
    <<tag + LowByte(Shl(value \cap (0..3), 3, 8)) + 128>> \o write_varint_loop(Shr(value, 4))

\* The bytes write_varint hands to a Vec<u8> writer.
write_varint(tag, value) ==
    LET partial == LowByte(Shl(value \cap (0..3), 3, 8))
        rest == Shr(value, 4)
    IN  IF rest = {} THEN <<tag + partial>>
        ELSE <<tag + partial + 128>> \o write_varint_loop(rest)

\* write_varint_128 is the same code over u128.
write_varint_128(tag, value) ==
    LET partial == LowByte(Shl(value \cap (0..3), 3, 8))
        rest == Shr(value, 4)
    IN  IF rest = {} THEN <<tag + partial>>
        ELSE <<tag + partial + 128>> \o write_varint_loop(rest)

VarintOk(value, len) == [ok |-> TRUE, value |-> value, len |-> len, err |-> "none"]
VarintErr(e) == [ok |-> FALSE, value |-> {}, len |-> 0, err |-> e]

\* The for loop of read_varint; i is the 1-based index of the next byte of data.
RECURSIVE read_varint_loop(_, _, _, _)
read_varint_loop(data, i, value, shift) ==
    IF i > Len(data) THEN VarintErr("UnexpectedEndOfInput")
    ELSE IF shift >= 64 THEN VarintErr("ValueOverflow")
    ELSE IF data[i] < 128
         THEN VarintOk(value \cup Shl(ByteBits(data[i]), shift, W64), i)
         ELSE read_varint_loop(data, i + 1,
                               value \cup Shl(ByteBits(data[i] % 128), shift, W64),
                               shift + 7)

\* A faulty read_varint that gives up before the tenth byte of a varint.
read_varint_short(tagbyte, data) ==
    IF tagbyte < 128 THEN VarintOk(ByteBits(tagbyte \div 8), 0)
    ELSE IF Len(data) >= 9 /\ \A i \in 1..8 : data[i] >= 128 THEN VarintErr("ValueOverflow")
    ELSE read_varint_loop(data, 1, ByteBits((tagbyte % 128) \div 8), 4)

read_varint(tagbyte, data) ==
    IF tagbyte < 128 THEN VarintOk(ByteBits(tagbyte \div 8), 0)
    ELSE read_varint_loop(data, 1, ByteBits((tagbyte % 128) \div 8), 4)

RECURSIVE read_varint_128_loop(_, _, _, _)
read_varint_128_loop(data, i, value, shift) ==
    IF i > Len(data) THEN VarintErr("UnexpectedEndOfInput")
    ELSE IF shift >= 128 THEN VarintErr("ValueOverflow")
    ELSE IF data[i] < 128
         THEN VarintOk(value \cup Shl(ByteBits(data[i]), shift, W128), i)
         ELSE read_varint_128_loop(data, i + 1,
                                   value \cup Shl(ByteBits(data[i] % 128), shift, W128),
                                   shift + 7)

read_varint_128(tagbyte, data) ==
    IF tagbyte < 128 THEN VarintOk(ByteBits(tagbyte \div 8), 0)
    ELSE read_varint_128_loop(data, 1, ByteBits((tagbyte % 128) \div 8), 4)

\* A faulty loop of skip_varint that lets a nineteenth continuation byte pass.
RECURSIVE skip_varint_loop_late(_, _)
skip_varint_loop_late(data, i) ==
    IF i >= Len(data) THEN VarintErr("UnexpectedEndOfInput")
    ELSE IF i = 19 THEN VarintErr("ValueOverflow")
    ELSE IF data[i + 1] < 128 THEN VarintOk({}, i + 1)
    ELSE skip_varint_loop_late(data, i + 1)

\* The for loop of skip_varint; i is the 0-based index of the source.
RECURSIVE skip_varint_loop(_, _)
skip_varint_loop(data, i) ==
    IF i >= Len(data) THEN VarintErr("UnexpectedEndOfInput")
    ELSE IF i = 18 THEN VarintErr("ValueOverflow")
    ELSE IF data[i + 1] < 128 THEN VarintOk({}, i + 1)
    ELSE skip_varint_loop(data, i + 1)

\* A faulty skip_varint that walks no further than a 64-bit varint.
skip_varint_64(tagbyte, data) ==
    IF tagbyte < 128 THEN VarintOk({}, 0)
    ELSE IF \E i \in 1..9 : i <= Len(data) /\ data[i] < 128
         THEN VarintOk({}, CHOOSE i \in 1..9 :
                              /\ i <= Len(data) /\ data[i] < 128
                              /\ \A j \in 1..(i - 1) : data[j] >= 128)
         ELSE VarintErr("ValueOverflow")

skip_varint(tagbyte, data) ==
    IF tagbyte < 128 THEN VarintOk({}, 0) ELSE skip_varint_loop(data, 0)

\* A faulty zigzag_encode without the sign: value << 1.
zigzag_encode_shifted(value) == Shl(value, 1, W64)

\* (value << 1) ^ (value >> 63)
zigzag_encode(value) == Xor(Shl(value, 1, W64), SignFill(value, W64))

\* A faulty zigzag_decode that loses the sign: encoded >> 1.
zigzag_decode_unsigned(encoded) == Shr(encoded, 1)

\* (encoded >> 1) ^ -(encoded & 1)
zigzag_decode(encoded) ==
    Xor(Shr(encoded, 1), IF 0 \in encoded THEN 0..(W64 - 1) ELSE {})

zigzag_encode_128(value) == Xor(Shl(value, 1, W128), SignFill(value, W128))

zigzag_decode_128(encoded) ==
    Xor(Shr(encoded, 1), IF 0 \in encoded THEN 0..(W128 - 1) ELSE {})

\* -------------------------------------------------------- types and values

(***************************************************************************)
(* A Rust type that implements Serialize / Deserialize is a record         *)
(*   k      the serde data-model construct the type maps to                *)
(*   w      the width of an integer type                                   *)
(*   elems  element / field / inner types (for an enum: its variants)      *)
(*   ndef   the number of trailing fields marked #[serde(default)]         *)
(*   other  for an enum: its last variant is marked #[serde(other)]        *)
(* A value is a record                                                     *)
(*   k      its constructor                                                *)
(*   bits   an integer's (bool's, char's, discriminant's) one-bits         *)
(*   items  the children (for a string or a byte string: its bytes)        *)
(***************************************************************************)
T(k, w, elems, ndef, other) ==
    [k |-> k, w |-> w, elems |-> elems, ndef |-> ndef, other |-> other]
V(k, bits, items) == [k |-> k, bits |-> bits, items |-> items]

TBool == T("bool", 0, <<>>, 0, FALSE)
TI(w) == T("i", w, <<>>, 0, FALSE)
TU(w) == T("u", w, <<>>, 0, FALSE)
TChar == T("char", 0, <<>>, 0, FALSE)
TF32 == T("f32", 0, <<>>, 0, FALSE)
TF64 == T("f64", 0, <<>>, 0, FALSE)
TStr == T("str", 0, <<>>, 0, FALSE)
TBytes == T("bytes", 0, <<>>, 0, FALSE)
TUnit == T("unit", 0, <<>>, 0, FALSE)
TUnitStruct == T("unit_struct", 0, <<>>, 0, FALSE)
TIgnoredAny == T("ignored_any", 0, <<>>, 0, FALSE)
TOption(t) == T("option", 0, <<t>>, 0, FALSE)
TNewtype(t) == T("newtype_struct", 0, <<t>>, 0, FALSE)
TSeq(t) == T("seq", 0, <<t>>, 0, FALSE)
TMap(kt, vt) == T("map", 0, <<kt, vt>>, 0, FALSE)
TTuple(ts) == T("tuple", 0, ts, 0, FALSE)
TTupleStruct(ts, ndef) == T("tuple_struct", 0, ts, ndef, FALSE)
TStruct(ts, ndef) == T("struct", 0, ts, ndef, FALSE)
TEnum(variants, other) == T("enum", 0, variants, 0, other)
\* The variants of an enum.
VUnit == T("unit_variant", 0, <<>>, 0, FALSE)
VNewtype(t) == T("newtype_variant", 0, <<t>>, 0, FALSE)
VTuple(ts, ndef) == T("tuple_variant", 0, ts, ndef, FALSE)
VStruct(ts, ndef) == T("struct_variant", 0, ts, ndef, FALSE)

VByte(b) == V("byte", ByteBits(b), <<>>)
VBool(b) == V("bool", IF b THEN {0} ELSE {}, <<>>)
VInt(bits) == V("int", bits, <<>>)
VChar(bits) == V("char", bits, <<>>)
VUnitValue == V("unit", {}, <<>>)
VNone == V("none", {}, <<>>)
VSome(v) == V("some", {}, <<v>>)
VSeq(items) == V("seq", {}, items)
VMap(items) == V("map", {}, items)
VNewtypeStruct(v) == V("newtype", {}, <<v>>)
VBytesOf(k, bytes) == V(k, {}, [i \in 1..Len(bytes) |-> VByte(bytes[i])])
VVariant(idx, fields) == V("variant", Bits(idx), fields)

\* The bytes of a string, byte string or float value.
RawBytes(v) == [i \in 1..Len(v.items) |-> LowByte(v.items[i].bits)]

\* -------------------------------------------------------------------- ser.rs

serialize_u64(v) == write_varint(WT_Int, v)
serialize_u8(v) == serialize_u64(v)
serialize_u16(v) == serialize_u64(v)
serialize_u32(v) == serialize_u64(v)
serialize_i64(v) == serialize_u64(zigzag_encode(v))
serialize_i8(v) == serialize_i64(SignExtend(v, W8, W64))
serialize_i16(v) == serialize_i64(SignExtend(v, W16, W64))
serialize_i32(v) == serialize_i64(SignExtend(v, W32, W64))
serialize_u128(v) == write_varint_128(WT_Int, v)
serialize_i128(v) == serialize_u128(zigzag_encode_128(v))
serialize_bool(v) == serialize_u8(IF v THEN {0} ELSE {})
serialize_char(v) == serialize_u32(v)
serialize_f32(bytes) == <<WT_Fixed32>> \o bytes
serialize_f64(bytes) == <<WT_Fixed64>> \o bytes
serialize_bytes(bytes) == write_varint(WT_Bytes, Bits(Len(bytes))) \o bytes
serialize_str(bytes) == serialize_bytes(bytes)
serialize_unit == serialize_bool(FALSE)
serialize_unit_struct == serialize_unit
serialize_unit_variant(variant_index) ==
    write_varint(WT_Variant, variant_index) \o serialize_unit
serialize_none == serialize_unit_variant(Bits(0))
\* serialize_newtype_variant and serialize_some, given the bytes of the value
serialize_newtype_variant(variant_index, value) ==
    write_varint(WT_Variant, variant_index) \o value
serialize_some(value) == serialize_newtype_variant(Bits(1), value)
\* A faulty serialize_newtype_struct that writes a Sequence of one element.
serialize_newtype_struct_framed(value) == write_varint(WT_Sequence, Bits(1)) \o value
\* serialize_newtype_struct, given the bytes of the value: value.serialize(self)
serialize_newtype_struct(value) == value
\* serialize_tuple, and serialize_seq / _tuple_struct / _struct which call it
serialize_tuple(len) == write_varint(WT_Sequence, Bits(len))
serialize_seq(len) == serialize_tuple(len)
serialize_map(len) == serialize_tuple(len * 2)
serialize_tuple_struct(len) == serialize_tuple(len)
\* A faulty serialize_struct that counts names as well as values.
serialize_struct_named(len) == serialize_tuple(len * 2)
serialize_struct(len) == serialize_tuple(len)
serialize_tuple_variant(variant_index, len) ==
    write_varint(WT_Variant, variant_index) \o serialize_tuple(len)
serialize_struct_variant(variant_index, len) ==
    serialize_tuple_variant(variant_index, len)

serialize_int(ty, v) ==
    IF ty.k = "i"
    THEN CASE ty.w = W8 -> serialize_i8(v)
           [] ty.w = W16 -> serialize_i16(v)
           [] ty.w = W32 -> serialize_i32(v)
           [] ty.w = W64 -> serialize_i64(v)
           [] ty.w = W128 -> serialize_i128(v)
    ELSE CASE ty.w = W8 -> serialize_u8(v)
           [] ty.w = W16 -> serialize_u16(v)
           [] ty.w = W32 -> serialize_u32(v)
           [] ty.w = W64 -> serialize_u64(v)
           [] ty.w = W128 -> serialize_u128(v)

\* The type of the i-th child of a value of type ty (a sequence and a map
\* repeat their element types).
ChildType(ty, i) ==
    CASE ty.k = "seq" -> ty.elems[1]
      [] ty.k = "map" -> ty.elems[2 - (i % 2)]
      [] OTHER -> ty.elems[i]

\* value.serialize(Serializer): the walk of the value that serde's Serialize
\* implementations make, and the bytes the Serializer methods they call emit.
RECURSIVE Serialize(_, _)
RECURSIVE serialize_elements(_, _, _)
\* SerializeSeq / SerializeTuple / SerializeStruct / SerializeMap ...:
\* serialize_element / serialize_field / serialize_key / serialize_value
serialize_elements(ty, items, i) ==
    IF i > Len(items) THEN <<>>
    ELSE Serialize(ChildType(ty, i), items[i]) \o serialize_elements(ty, items, i + 1)

Serialize(ty, v) ==
    CASE ty.k = "bool" -> serialize_bool(0 \in v.bits)
      [] ty.k \in {"i", "u"} -> serialize_int(ty, v.bits)
      [] ty.k = "char" -> serialize_char(v.bits)
      [] ty.k = "f32" -> serialize_f32(RawBytes(v))
      [] ty.k = "f64" -> serialize_f64(RawBytes(v))
      [] ty.k = "str" -> serialize_str(RawBytes(v))
      [] ty.k = "bytes" -> serialize_bytes(RawBytes(v))
      [] ty.k = "unit" -> serialize_unit
      [] ty.k = "unit_struct" -> serialize_unit_struct
      [] ty.k = "option" ->
            IF v.k = "none" THEN serialize_none
            ELSE serialize_some(Serialize(ty.elems[1], v.items[1]))
      [] ty.k = "newtype_struct" ->
            serialize_newtype_struct(Serialize(ty.elems[1], v.items[1]))
      [] ty.k = "seq" ->
            serialize_seq(Len(v.items)) \o serialize_elements(ty, v.items, 1)
      [] ty.k = "map" ->
            serialize_map(Len(v.items) \div 2) \o serialize_elements(ty, v.items, 1)
      [] ty.k = "tuple" ->
            serialize_tuple(Len(v.items)) \o serialize_elements(ty, v.items, 1)
      [] ty.k = "tuple_struct" ->
            serialize_tuple_struct(Len(v.items)) \o serialize_elements(ty, v.items, 1)
      [] ty.k = "struct" ->
            serialize_struct(Len(v.items)) \o serialize_elements(ty, v.items, 1)
      [] ty.k = "enum" ->
            LET var == ty.elems[AsUsize(v.bits) + 1] IN
            CASE var.k = "unit_variant" -> serialize_unit_variant(v.bits)
              [] var.k = "newtype_variant" ->
                    serialize_newtype_variant(v.bits, Serialize(var.elems[1], v.items[1]))
              [] var.k = "tuple_variant" ->
                    serialize_tuple_variant(v.bits, Len(v.items))
                        \o serialize_elements(var, v.items, 1)
              [] var.k = "struct_variant" ->
                    serialize_struct_variant(v.bits, Len(v.items))
                        \o serialize_elements(var, v.items, 1)

\* to_bytes: to_writer into a fresh Vec<u8>.
to_bytes(ty, v) == Serialize(ty, v)


\* --------------------------------------------------- de.rs: the Deserializer

(***************************************************************************)
(* A Deserializer is its field `input`, the part of the buffer not yet     *)
(* read.  Every method below takes `input` and returns a record holding    *)
(* the `input` it leaves behind (also when it fails: a failing method      *)
(* keeps what it had consumed before the failure).                         *)
(***************************************************************************)
remaining_len(input) == Len(input)

\* check(n): Ok unless n > input.len()
check(input, n) == ~(n > Len(input))

\* A faulty read that hands out what is left when less than n bytes are.
read_short(input, n) ==
    IF n > Len(input)
    THEN [ok |-> TRUE, bytes |-> input, input |-> <<>>, err |-> "none"]
    ELSE [ok |-> TRUE, bytes |-> TakeN(input, n), input |-> DropN(input, n), err |-> "none"]

\* read(n): the slice taken and the remainder.
read(input, n) ==
    IF check(input, n)
    THEN [ok |-> TRUE, bytes |-> TakeN(input, n), input |-> DropN(input, n), err |-> "none"]
    ELSE [ok |-> FALSE, bytes |-> <<>>, input |-> input, err |-> "UnexpectedEndOfInput"]

read_32(input) == read(input, 4)
read_64(input) == read(input, 8)

read_byte(input) ==
    IF Len(input) = 0
    THEN [ok |-> FALSE, b |-> 0, input |-> input, err |-> "UnexpectedEndOfInput"]
    ELSE [ok |-> TRUE, b |-> input[1], input |-> DropN(input, 1), err |-> "none"]

consume(input, len) == DropN(input, len)

\* Deserializer::read_varint: wire::read_varint on the rest of the input, then consume.
de_read_varint(input, tagbyte) ==
    Let(read_varint(tagbyte, input), LAMBDA r :
    IF r.ok THEN [ok |-> TRUE, value |-> r.value, input |-> consume(input, r.len), err |-> "none"]
    ELSE [ok |-> FALSE, value |-> {}, input |-> input, err |-> r.err])

de_read_varint_128(input, tagbyte) ==
    Let(read_varint_128(tagbyte, input), LAMBDA r :
    IF r.ok THEN [ok |-> TRUE, value |-> r.value, input |-> consume(input, r.len), err |-> "none"]
    ELSE [ok |-> FALSE, value |-> {}, input |-> input, err |-> r.err])

SkipOk(input) == [ok |-> TRUE, input |-> input, err |-> "none"]
SkipErr(e, input) == [ok |-> FALSE, input |-> input, err |-> e]

RECURSIVE skip(_)
RECURSIVE skip_elements(_, _)
\* for _ in 0..len { self.skip()?; }
skip_elements(input, len) ==
    IF len = 0 THEN SkipOk(input)
    ELSE Let(skip(input), LAMBDA r :
         IF r.ok THEN skip_elements(r.input, len - 1) ELSE r)

skip(input) ==
    Let(read_byte(input), LAMBDA t :
    IF ~t.ok THEN SkipErr(t.err, t.input)
    ELSE
    CASE read_wiretype(t.b) = WT_Int ->
            Let(skip_varint(t.b, t.input), LAMBDA r :
            IF r.ok THEN SkipOk(consume(t.input, r.len)) ELSE SkipErr(r.err, t.input))
      [] read_wiretype(t.b) = WT_Fixed32 ->
            Let(read_32(t.input), LAMBDA r :
            IF r.ok THEN SkipOk(r.input) ELSE SkipErr(r.err, r.input))
      [] read_wiretype(t.b) = WT_Fixed64 ->
            Let(read_64(t.input), LAMBDA r :
            IF r.ok THEN SkipOk(r.input) ELSE SkipErr(r.err, r.input))
      [] read_wiretype(t.b) = WT_Sequence ->
            Let(de_read_varint(t.input, t.b), LAMBDA r :
            IF r.ok THEN skip_elements(r.input, AsUsize(r.value))
            ELSE SkipErr(r.err, r.input))
      [] read_wiretype(t.b) = WT_Bytes ->
            Let(de_read_varint(t.input, t.b), LAMBDA r :
            IF ~r.ok THEN SkipErr(r.err, r.input)
            ELSE Let(read(r.input, AsUsize(r.value)), LAMBDA b :
                 IF b.ok THEN SkipOk(b.input) ELSE SkipErr(b.err, b.input)))
      [] read_wiretype(t.b) = WT_Variant ->
            Let(de_read_varint(t.input, t.b), LAMBDA r :
            IF r.ok THEN skip(r.input) ELSE SkipErr(r.err, r.input))
      [] OTHER -> SkipErr("UnexpectedWireType", t.input))

\* The result of a typed decode: a value, or an error, and the input left.
DeOk(val, input) == [ok |-> TRUE, val |-> val, input |-> input, err |-> "none"]
DeErr(e, input) == [ok |-> FALSE, val |-> VUnitValue, input |-> input, err |-> e]

\* uN::from_le_bytes / iN::from_le_bytes
RECURSIVE from_le_bytes(_, _)
from_le_bytes(bytes, i) ==
    IF i > Len(bytes) THEN {}
    ELSE {b + 8 * (i - 1) : b \in ByteBits(bytes[i])} \cup from_le_bytes(bytes, i + 1)

\* i64 -> iN try_into()?, keeping the low w bits of a value that fits
narrow_signed(bits, w, input) ==
    IF FitsSigned(bits, W64, w) THEN DeOk(VInt(bits \cap (0..(w - 1))), input)
    ELSE DeErr("ValueOverflow", input)

\* u64 -> uN try_into()?
narrow_unsigned(bits, w, input) ==
    IF FitsUnsigned(bits, w) THEN DeOk(VInt(bits), input)
    ELSE DeErr("ValueOverflow", input)

deserialize_i8(input) ==
    Let(read_byte(input), LAMBDA t :
    IF ~t.ok THEN DeErr(t.err, t.input)
    ELSE IF read_wiretype(t.b) # WT_Int THEN DeErr("UnexpectedWireType", t.input)
    ELSE Let(de_read_varint(t.input, t.b), LAMBDA r :
         IF ~r.ok THEN DeErr(r.err, r.input)
         ELSE narrow_signed(zigzag_decode(r.value), W8, r.input)))

deserialize_i16(input) ==
    Let(read_byte(input), LAMBDA t :
    IF ~t.ok THEN DeErr(t.err, t.input)
    ELSE IF read_wiretype(t.b) # WT_Int THEN DeErr("UnexpectedWireType", t.input)
    ELSE Let(de_read_varint(t.input, t.b), LAMBDA r :
         IF ~r.ok THEN DeErr(r.err, r.input)
         ELSE narrow_signed(zigzag_decode(r.value), W16, r.input)))

deserialize_i32(input) ==
    Let(read_byte(input), LAMBDA t :
    IF ~t.ok THEN DeErr(t.err, t.input)
    ELSE
    CASE read_wiretype(t.b) = WT_Int ->
            Let(de_read_varint(t.input, t.b), LAMBDA r :
            IF ~r.ok THEN DeErr(r.err, r.input)
            ELSE narrow_signed(zigzag_decode(r.value), W32, r.input))
      [] read_wiretype(t.b) = WT_Fixed32 ->
            Let(read_32(t.input), LAMBDA r :
            IF ~r.ok THEN DeErr(r.err, r.input)
            ELSE DeOk(VInt(from_le_bytes(r.bytes, 1)), r.input))
      [] OTHER -> DeErr("UnexpectedWireType", t.input))

deserialize_i64(input) ==
    Let(read_byte(input), LAMBDA t :
    IF ~t.ok THEN DeErr(t.err, t.input)
    ELSE
    CASE read_wiretype(t.b) = WT_Int ->
            Let(de_read_varint(t.input, t.b), LAMBDA r :
            IF ~r.ok THEN DeErr(r.err, r.input)
            ELSE DeOk(VInt(zigzag_decode(r.value)), r.input))
      [] read_wiretype(t.b) = WT_Fixed64 ->
            Let(read_64(t.input), LAMBDA r :
            IF ~r.ok THEN DeErr(r.err, r.input)
            ELSE DeOk(VInt(from_le_bytes(r.bytes, 1)), r.input))
      [] OTHER -> DeErr("UnexpectedWireType", t.input))

deserialize_u8(input) ==
    Let(read_byte(input), LAMBDA t :
    IF ~t.ok THEN DeErr(t.err, t.input)
    ELSE IF read_wiretype(t.b) # WT_Int THEN DeErr("UnexpectedWireType", t.input)
    ELSE Let(de_read_varint(t.input, t.b), LAMBDA r :
         IF ~r.ok THEN DeErr(r.err, r.input)
         ELSE narrow_unsigned(r.value, W8, r.input)))

deserialize_u16(input) ==
    Let(read_byte(input), LAMBDA t :
    IF ~t.ok THEN DeErr(t.err, t.input)
    ELSE IF read_wiretype(t.b) # WT_Int THEN DeErr("UnexpectedWireType", t.input)
    ELSE Let(de_read_varint(t.input, t.b), LAMBDA r :
         IF ~r.ok THEN DeErr(r.err, r.input)
         ELSE narrow_unsigned(r.value, W16, r.input)))

deserialize_u32(input) ==
    Let(read_byte(input), LAMBDA t :
    IF ~t.ok THEN DeErr(t.err, t.input)
    ELSE
    CASE read_wiretype(t.b) = WT_Int ->
            Let(de_read_varint(t.input, t.b), LAMBDA r :
            IF ~r.ok THEN DeErr(r.err, r.input)
            ELSE narrow_unsigned(r.value, W32, r.input))
      [] read_wiretype(t.b) = WT_Fixed32 ->
            Let(read_32(t.input), LAMBDA r :
            IF ~r.ok THEN DeErr(r.err, r.input)
            ELSE DeOk(VInt(from_le_bytes(r.bytes, 1)), r.input))
      [] OTHER -> DeErr("UnexpectedWireType", t.input))

deserialize_u64(input) ==
    Let(read_byte(input), LAMBDA t :
    IF ~t.ok THEN DeErr(t.err, t.input)
    ELSE
    CASE read_wiretype(t.b) = WT_Int ->
            Let(de_read_varint(t.input, t.b), LAMBDA r :
            IF ~r.ok THEN DeErr(r.err, r.input)
            ELSE DeOk(VInt(r.value), r.input))
      [] read_wiretype(t.b) = WT_Fixed64 ->
            Let(read_64(t.input), LAMBDA r :
            IF ~r.ok THEN DeErr(r.err, r.input)
            ELSE DeOk(VInt(from_le_bytes(r.bytes, 1)), r.input))
      [] OTHER -> DeErr("UnexpectedWireType", t.input))

deserialize_i128(input) ==
    Let(read_byte(input), LAMBDA t :
    IF ~t.ok THEN DeErr(t.err, t.input)
    ELSE IF read_wiretype(t.b) # WT_Int THEN DeErr("UnexpectedWireType", t.input)
    ELSE Let(de_read_varint_128(t.input, t.b), LAMBDA r :
         IF ~r.ok THEN DeErr(r.err, r.input)
         ELSE DeOk(VInt(zigzag_decode_128(r.value)), r.input)))

deserialize_u128(input) ==
    Let(read_byte(input), LAMBDA t :
    IF ~t.ok THEN DeErr(t.err, t.input)
    ELSE IF read_wiretype(t.b) # WT_Int THEN DeErr("UnexpectedWireType", t.input)
    ELSE Let(de_read_varint_128(t.input, t.b), LAMBDA r :
         IF ~r.ok THEN DeErr(r.err, r.input)
         ELSE DeOk(VInt(r.value), r.input)))

\* A float is modelled by its bytes.  `as f32` and `as f64` change the
\* representation: the converted value is kept apart from a native one.
deserialize_f32(input) ==
    Let(read_byte(input), LAMBDA t :
    IF ~t.ok THEN DeErr(t.err, t.input)
    ELSE
    CASE read_wiretype(t.b) = WT_Fixed32 ->
            Let(read_32(t.input), LAMBDA r :
            IF ~r.ok THEN DeErr(r.err, r.input)
            ELSE DeOk(VBytesOf("f32", r.bytes), r.input))
      [] read_wiretype(t.b) = WT_Fixed64 ->
            Let(read_64(t.input), LAMBDA r :
            IF ~r.ok THEN DeErr(r.err, r.input)
            ELSE DeOk(VBytesOf("f64_as_f32", r.bytes), r.input))
      [] OTHER -> DeErr("UnexpectedWireType", t.input))

deserialize_f64(input) ==
    Let(read_byte(input), LAMBDA t :
    IF ~t.ok THEN DeErr(t.err, t.input)
    ELSE
    CASE read_wiretype(t.b) = WT_Fixed32 ->
            Let(read_32(t.input), LAMBDA r :
            IF ~r.ok THEN DeErr(r.err, r.input)
            ELSE DeOk(VBytesOf("f32_as_f64", r.bytes), r.input))
      [] read_wiretype(t.b) = WT_Fixed64 ->
            Let(read_64(t.input), LAMBDA r :
            IF ~r.ok THEN DeErr(r.err, r.input)
            ELSE DeOk(VBytesOf("f64", r.bytes), r.input))
      [] OTHER -> DeErr("UnexpectedWireType", t.input))

deserialize_bool(input) ==
    Let(deserialize_u64(input), LAMBDA r :
    IF ~r.ok THEN r ELSE DeOk(VBool(r.val.bits # {}), r.input))

\* char::try_from(u32): a Unicode scalar value.
CharTryFrom(bits) ==
    /\ \A i \in bits : i < 21
    /\ SumPow2(bits) < 1114112
    /\ ~(SumPow2(bits) >= 55296 /\ SumPow2(bits) <= 57343)

deserialize_char(input) ==
    Let(deserialize_u32(input), LAMBDA r :
    IF ~r.ok THEN r
    ELSE IF CharTryFrom(r.val.bits) THEN DeOk(VChar(r.val.bits), r.input)
    ELSE DeErr("InvalidChar", r.input))

\* A faulty deserialize_bytes that reads the length before it looks at the wire type.
deserialize_bytes_late(input) ==
    Let(read_byte(input), LAMBDA t :
    IF ~t.ok THEN DeErr(t.err, t.input)
    ELSE Let(de_read_varint(t.input, t.b), LAMBDA r :
         IF ~r.ok THEN DeErr(r.err, r.input)
         ELSE IF read_wiretype(t.b) # WT_Bytes THEN DeErr("UnexpectedWireType", r.input)
         ELSE Let(read(r.input, AsUsize(r.value)), LAMBDA b :
              IF ~b.ok THEN DeErr(b.err, b.input)
              ELSE DeOk(VBytesOf("bytes", b.bytes), b.input))))

deserialize_bytes(input) ==
    Let(read_byte(input), LAMBDA t :
    IF ~t.ok THEN DeErr(t.err, t.input)
    ELSE IF read_wiretype(t.b) # WT_Bytes THEN DeErr("UnexpectedWireType", t.input)
    ELSE Let(de_read_varint(t.input, t.b), LAMBDA r :
         IF ~r.ok THEN DeErr(r.err, r.input)
         ELSE Let(read(r.input, AsUsize(r.value)), LAMBDA b :
              IF ~b.ok THEN DeErr(b.err, b.input)
              ELSE DeOk(VBytesOf("bytes", b.bytes), b.input))))

deserialize_byte_buf(input) == deserialize_bytes(input)

\* std::str::from_utf8: the well-formed UTF-8 byte sequences.
Cont(b) == b >= 128 /\ b <= 191
RECURSIVE from_utf8(_, _)
from_utf8(b, i) ==
    Let(Len(b) - i + 1, LAMBDA n :
    IF n <= 0 THEN TRUE
    ELSE IF b[i] < 128 THEN from_utf8(b, i + 1)
    ELSE IF b[i] >= 194 /\ b[i] <= 223
         THEN n >= 2 /\ Cont(b[i + 1]) /\ from_utf8(b, i + 2)
    ELSE IF b[i] >= 224 /\ b[i] <= 239
         THEN /\ n >= 3
              /\ Cont(b[i + 1])
              /\ Cont(b[i + 2])
              /\ (b[i] = 224 => b[i + 1] >= 160)
              /\ (b[i] = 237 => b[i + 1] <= 159)
              /\ from_utf8(b, i + 3)
    ELSE IF b[i] >= 240 /\ b[i] <= 244
         THEN /\ n >= 4
              /\ Cont(b[i + 1])
              /\ Cont(b[i + 2])
              /\ Cont(b[i + 3])
              /\ (b[i] = 240 => b[i + 1] >= 144)
              /\ (b[i] = 244 => b[i + 1] <= 143)
              /\ from_utf8(b, i + 4)
    ELSE FALSE)

deserialize_str(input) ==
    Let(deserialize_bytes(input), LAMBDA r :
    IF ~r.ok THEN r
    ELSE IF from_utf8(RawBytes(r.val), 1) THEN DeOk(VBytesOf("str", RawBytes(r.val)), r.input)
    ELSE DeErr("InvalidUtf8", r.input))

deserialize_string(input) == deserialize_str(input)

\* A faulty deserialize_unit that wants the Int wire type a unit is written with.
deserialize_unit_checked(input) ==
    Let(skip(input), LAMBDA r :
    IF input # <<>> /\ read_wiretype(input[1]) # WT_Int
    THEN DeErr("UnexpectedWireType", DropN(input, 1))
    ELSE IF r.ok THEN DeOk(VUnitValue, r.input) ELSE DeErr(r.err, r.input))

deserialize_unit(input) ==
    Let(skip(input), LAMBDA r :
    IF r.ok THEN DeOk(VUnitValue, r.input) ELSE DeErr(r.err, r.input))

deserialize_unit_struct(input) ==
    Let(skip(input), LAMBDA r :
    IF r.ok THEN DeOk(VUnitValue, r.input) ELSE DeErr(r.err, r.input))

deserialize_ignored_any(input) ==
    Let(skip(input), LAMBDA r :
    IF r.ok THEN DeOk(VUnitValue, r.input) ELSE DeErr(r.err, r.input))


\* A faulty deserialize_option that leaves the child of a None where it is.
deserialize_option_unskipped(input) ==
    Let(read_byte(input), LAMBDA t :
    IF ~t.ok THEN [ok |-> FALSE, some |-> FALSE, input |-> t.input, err |-> t.err]
    ELSE IF read_wiretype(t.b) # WT_Variant
         THEN [ok |-> FALSE, some |-> FALSE, input |-> t.input, err |-> "UnexpectedWireType"]
    ELSE Let(de_read_varint(t.input, t.b), LAMBDA b :
         IF ~b.ok THEN [ok |-> FALSE, some |-> FALSE, input |-> b.input, err |-> b.err]
         ELSE [ok |-> TRUE, some |-> b.value # {}, input |-> b.input, err |-> "none"]))

\* deserialize_option up to the visitor call: None (one child skipped), or
\* Some, whose value visit_some decodes next.
deserialize_option(input) ==
    Let(read_byte(input), LAMBDA t :
    IF ~t.ok THEN [ok |-> FALSE, some |-> FALSE, input |-> t.input, err |-> t.err]
    ELSE IF read_wiretype(t.b) # WT_Variant
         THEN [ok |-> FALSE, some |-> FALSE, input |-> t.input, err |-> "UnexpectedWireType"]
    ELSE Let(de_read_varint(t.input, t.b), LAMBDA b :
         IF ~b.ok THEN [ok |-> FALSE, some |-> FALSE, input |-> b.input, err |-> b.err]
         ELSE IF b.value = {}
              THEN Let(skip(b.input), LAMBDA r :
                   [ok |-> r.ok, some |-> FALSE, input |-> r.input, err |-> r.err])
              ELSE [ok |-> TRUE, some |-> TRUE, input |-> b.input, err |-> "none"]))

\* A SeqRead { d, nread, nreturn } handed to the visitor, or the error
\* raised before one is made.
SeqRead(nread, nreturn, input) ==
    [ok |-> TRUE, nread |-> nread, nreturn |-> nreturn, input |-> input, err |-> "none"]
NoSeqRead(e, input) ==
    [ok |-> FALSE, nread |-> 0, nreturn |-> 0, input |-> input, err |-> e]

Min(a, b) == IF a < b THEN a ELSE b

deserialize_seq(input) ==
    Let(read_byte(input), LAMBDA t :
    IF ~t.ok THEN NoSeqRead(t.err, t.input)
    ELSE IF read_wiretype(t.b) # WT_Sequence THEN NoSeqRead("UnexpectedWireType", t.input)
    ELSE Let(de_read_varint(t.input, t.b), LAMBDA n :
         IF ~n.ok THEN NoSeqRead(n.err, n.input)
         ELSE SeqRead(AsUsize(n.value), AsUsize(n.value), n.input)))

\* A faulty deserialize_tuple whose reader offers len elements whatever the header says.
deserialize_tuple_len(input, len) ==
    Let(read_byte(input), LAMBDA t :
    IF ~t.ok THEN NoSeqRead(t.err, t.input)
    ELSE IF read_wiretype(t.b) # WT_Sequence THEN NoSeqRead("UnexpectedWireType", t.input)
    ELSE Let(de_read_varint(t.input, t.b), LAMBDA n :
         IF ~n.ok THEN NoSeqRead(n.err, n.input)
         ELSE SeqRead(AsUsize(n.value), len, n.input)))

deserialize_tuple(input, len) ==
    Let(read_byte(input), LAMBDA t :
    IF ~t.ok THEN NoSeqRead(t.err, t.input)
    ELSE IF read_wiretype(t.b) # WT_Sequence THEN NoSeqRead("UnexpectedWireType", t.input)
    ELSE Let(de_read_varint(t.input, t.b), LAMBDA n :
         IF ~n.ok THEN NoSeqRead(n.err, n.input)
         ELSE SeqRead(AsUsize(n.value), Min(AsUsize(n.value), len), n.input)))

deserialize_tuple_struct(input, len) == deserialize_tuple(input, len)
deserialize_struct(input, nfields) == deserialize_tuple(input, nfields)

\* A faulty deserialize_map without the check of the length's parity.
deserialize_map_unpaired(input) ==
    Let(read_byte(input), LAMBDA t :
    IF ~t.ok THEN NoSeqRead(t.err, t.input)
    ELSE IF read_wiretype(t.b) # WT_Sequence THEN NoSeqRead("UnexpectedWireType", t.input)
    ELSE Let(de_read_varint(t.input, t.b), LAMBDA n :
         IF ~n.ok THEN NoSeqRead(n.err, n.input)
         ELSE SeqRead(AsUsize(n.value), AsUsize(n.value) \div 2, n.input)))

\* A faulty deserialize_map whose reader offers one key for every element.
deserialize_map_keys(input) ==
    Let(read_byte(input), LAMBDA t :
    IF ~t.ok THEN NoSeqRead(t.err, t.input)
    ELSE IF read_wiretype(t.b) # WT_Sequence THEN NoSeqRead("UnexpectedWireType", t.input)
    ELSE Let(de_read_varint(t.input, t.b), LAMBDA n :
         IF ~n.ok THEN NoSeqRead(n.err, n.input)
         ELSE IF AsUsize(n.value) % 2 # 0 THEN NoSeqRead("InvalidMap", n.input)
         ELSE SeqRead(AsUsize(n.value), AsUsize(n.value), n.input)))

deserialize_map(input) ==
    Let(read_byte(input), LAMBDA t :
    IF ~t.ok THEN NoSeqRead(t.err, t.input)
    ELSE IF read_wiretype(t.b) # WT_Sequence THEN NoSeqRead("UnexpectedWireType", t.input)
    ELSE Let(de_read_varint(t.input, t.b), LAMBDA n :
         IF ~n.ok THEN NoSeqRead(n.err, n.input)
         ELSE IF AsUsize(n.value) % 2 # 0 THEN NoSeqRead("InvalidMap", n.input)
         ELSE SeqRead(AsUsize(n.value), AsUsize(n.value) \div 2, n.input)))

\* seed.deserialize(U32Deserializer) in variant_seed: the identifier visitor
\* serde derives for the enum maps the discriminant to a variant (0-based); a
\* discriminant the enum does not declare goes to the #[serde(other)] variant
\* when there is one, and is a framework error otherwise.
variant_identifier(ty, discr) ==
    IF AsUsize(discr) < Len(ty.elems) THEN AsUsize(discr)
    ELSE IF ty.other THEN Len(ty.elems) - 1
    ELSE -1

\* EnumAccess::variant_seed: the variant chosen and the SeqRead { nread: 1, nreturn: 1 }.
variant_seed(input, ty) ==
    Let(read_byte(input), LAMBDA t :
    IF ~t.ok THEN [ok |-> FALSE, var |-> 0, nread |-> 0, nreturn |-> 0,
                   input |-> t.input, err |-> t.err]
    ELSE IF read_wiretype(t.b) # WT_Variant
         THEN [ok |-> FALSE, var |-> 0, nread |-> 0, nreturn |-> 0,
               input |-> t.input, err |-> "UnexpectedWireType"]
    ELSE Let(de_read_varint(t.input, t.b), LAMBDA d :
         IF ~d.ok THEN [ok |-> FALSE, var |-> 0, nread |-> 0, nreturn |-> 0,
                        input |-> d.input, err |-> d.err]
         ELSE IF ~FitsUnsigned(d.value, W32)
              THEN [ok |-> FALSE, var |-> 0, nread |-> 0, nreturn |-> 0,
                    input |-> d.input, err |-> "ValueOverflow"]
         ELSE IF variant_identifier(ty, d.value) < 0
              THEN [ok |-> FALSE, var |-> 0, nread |-> 0, nreturn |-> 0,
                    input |-> d.input, err |-> "Deserialization"]
         ELSE [ok |-> TRUE, var |-> variant_identifier(ty, d.value), nread |-> 1,
               nreturn |-> 1, input |-> d.input, err |-> "none"]))

\* SeqAccess::next_element_seed up to seed.deserialize: the counters, and
\* whether an element is decoded next.
next_element_seed(nread, nreturn) ==
    IF nreturn = 0 THEN [some |-> FALSE, nread |-> nread, nreturn |-> nreturn]
    ELSE [some |-> TRUE, nread |-> nread - 1, nreturn |-> nreturn - 1]

\* MapAccess::next_key_seed up to seed.deserialize.
next_key_seed(nread, nreturn) ==
    IF nreturn = 0 THEN [some |-> FALSE, nread |-> nread, nreturn |-> nreturn]
    ELSE [some |-> TRUE, nread |-> nread - 1, nreturn |-> nreturn - 1]

\* MapAccess::next_value_seed up to seed.deserialize.
next_value_seed(nread, nreturn) ==
    [some |-> TRUE, nread |-> nread - 1, nreturn |-> nreturn]

\* A faulty Drop for SeqRead that skips nothing.
drop_nothing(input, nread) == [input |-> input, nread |-> nread, err |-> "none"]

\* Drop for SeqRead: skip what was not read; a failing skip ends the loop,
\* and its error goes nowhere.
RECURSIVE drop(_, _)
drop(input, nread) ==
    IF nread > 0
    THEN Let(skip(input), LAMBDA r :
         IF ~r.ok THEN [input |-> r.input, nread |-> nread, err |-> r.err]
         ELSE drop(r.input, nread - 1))
    ELSE [input |-> input, nread |-> nread, err |-> "none"]


\* A faulty unit_variant that leaves the variant's child where it is.
unit_variant_unskipped(nread, input) ==
    [ok |-> TRUE, input |-> input, err |-> "none", nread |-> nread - 1]

\* VariantAccess::unit_variant: self.nread -= 1; self.d.skip(), then self is dropped.
unit_variant(nread, input) ==
    Let(skip(input), LAMBDA r :
    Let(drop(r.input, nread - 1), LAMBDA d :
    [ok |-> r.ok, input |-> d.input, err |-> r.err, nread |-> d.nread]))

\* VariantAccess::newtype_variant_seed up to seed.deserialize.
newtype_variant_seed(nread) == nread - 1

\* VariantAccess::tuple_variant: self.nread -= 1; self.d.deserialize_tuple(len, visitor).
tuple_variant(nread, input, len) ==
    [nread |-> nread - 1, seq |-> deserialize_tuple(input, len)]

\* VariantAccess::struct_variant
struct_variant(nread, input, nfields) == tuple_variant(nread, input, nfields)

\* The decode a primitive's (or unit's) Deserialize implementation asks for.
deserialize_primitive(ty, input) ==
    CASE ty.k = "bool" -> deserialize_bool(input)
      [] ty.k = "i" /\ ty.w = W8 -> deserialize_i8(input)
      [] ty.k = "i" /\ ty.w = W16 -> deserialize_i16(input)
      [] ty.k = "i" /\ ty.w = W32 -> deserialize_i32(input)
      [] ty.k = "i" /\ ty.w = W64 -> deserialize_i64(input)
      [] ty.k = "i" /\ ty.w = W128 -> deserialize_i128(input)
      [] ty.k = "u" /\ ty.w = W8 -> deserialize_u8(input)
      [] ty.k = "u" /\ ty.w = W16 -> deserialize_u16(input)
      [] ty.k = "u" /\ ty.w = W32 -> deserialize_u32(input)
      [] ty.k = "u" /\ ty.w = W64 -> deserialize_u64(input)
      [] ty.k = "u" /\ ty.w = W128 -> deserialize_u128(input)
      [] ty.k = "char" -> deserialize_char(input)
      [] ty.k = "f32" -> deserialize_f32(input)
      [] ty.k = "f64" -> deserialize_f64(input)
      [] ty.k = "str" -> deserialize_string(input)
      [] ty.k = "bytes" -> deserialize_byte_buf(input)
      [] ty.k = "unit" -> deserialize_unit(input)
      [] ty.k = "unit_struct" -> deserialize_unit_struct(input)
      [] ty.k = "ignored_any" -> deserialize_ignored_any(input)

PrimitiveKinds ==
    {"bool", "i", "u", "char", "f32", "f64", "str", "bytes", "unit", "unit_struct",
     "ignored_any"}
TupleKinds == {"tuple", "tuple_struct", "struct", "tuple_variant", "struct_variant"}

\* Default::default() of a field marked #[serde(default)].
DefaultValue(ty) ==
    CASE ty.k \in {"i", "u"} -> VInt({})
      [] ty.k = "bool" -> VBool(FALSE)
      [] ty.k = "option" -> VNone
      [] ty.k = "seq" -> VSeq(<<>>)
      [] ty.k = "str" -> VBytesOf("str", <<>>)
      [] OTHER -> VUnitValue

\* -------------------------------------------------------------------- lib.rs

ApiOk(val, consumed) == [st |-> "ok", val |-> val, err |-> "none", consumed |-> consumed]
ApiErr(e) == [st |-> "err", val |-> VUnitValue, err |-> e, consumed |-> 0]

\* A faulty from_bytes that does not look at what is left.
from_bytes_lenient(r, input) ==
    IF r.st = "err" THEN ApiErr(r.err) ELSE ApiOk(r.val, 0)

\* A faulty from_bytes_more_data that reports the whole buffer as consumed.
from_bytes_more_data_all(r, data, input) ==
    IF r.st = "err" THEN ApiErr(r.err) ELSE ApiOk(r.val, Len(data))

\* from_bytes after T::deserialize(&mut de) has returned r, leaving `input`.
from_bytes(r, input) ==
    IF r.st = "err" THEN ApiErr(r.err)
    ELSE IF remaining_len(input) > 0 THEN ApiErr("DataBeyondEnd")
    ELSE ApiOk(r.val, 0)

\* from_bytes_more_data after T::deserialize(&mut de) has returned r.
from_bytes_more_data(r, data, input) ==
    IF r.st = "err" THEN ApiErr(r.err)
    ELSE ApiOk(r.val, Len(data) - remaining_len(input))

\* ------------------------------------------------------------------- inputs

I32 == TI(W32)
\* tests.rs: ShortStruct, LongStruct, ShortTuple, LongTuple
ShortStruct == TStruct(<<I32, I32>>, 0)
LongStruct == TStruct(<<I32, I32, I32>>, 1)
ShortTuple == TTupleStruct(<<I32, I32>>, 0)
LongTuple == TTupleStruct(<<I32, I32, I32>>, 1)
\* a struct whose two trailing fields are #[serde(default)]
Long2Struct == TStruct(<<I32, I32, I32>>, 2)
Tuple3 == TTuple(<<I32, I32, I32>>)
\* tests.rs test_struct: Bar(i32), Inner { x: i64 }, Foo { x, y, z, i }
Bar == TNewtype(I32)
Inner == TStruct(<<TI(W64)>>, 0)
Foo == TStruct(<<I32, TStr, TSeq(I32), Inner>>, 0)
\* tests.rs test_enum: E { Unit, Newtype(i32), Tuple(i32, i32), Struct { x, y } }
E == TEnum(<<VUnit, VNewtype(I32), VTuple(<<I32, I32>>, 0), VStruct(<<I32, I32>>, 0)>>, FALSE)
\* tests.rs extend_enum_with_other: E1 { X(i32), Y(i64), #[serde(other)] Other }
E1 == TEnum(<<VNewtype(I32), VNewtype(TI(W64)), VUnit>>, TRUE)
\* tests.rs extend_enum: E2 { X(i32), Y(i64), Z(String) }
E2 == TEnum(<<VNewtype(I32), VNewtype(TI(W64)), VNewtype(TStr)>>, FALSE)
\* a record whose trailing fields take every wire type
Wide == TStruct(<<I32, TU(W128), TF32, TF64, TStr, TOption(I32), E, TSeq(I32)>>, 0)
Narrow == TStruct(<<I32>>, 0)

Targets ==
    <<TBool, TI(W8), TI(W16), TI(W32), TI(W64), TI(W128),
      TU(W8), TU(W16), TU(W32), TU(W64), TU(W128),
      TChar, TF32, TF64, TStr, TBytes, TUnit, TUnitStruct, TIgnoredAny,
      TOption(I32), TOption(TUnit), TSeq(I32), TSeq(TU(W8)), TMap(TStr, I32),
      Tuple3, ShortStruct, LongStruct, Long2Struct, ShortTuple, LongTuple,
      Bar, Foo, E, E1, E2, Wide, Narrow, TOption(TOption(I32)),
      TSeq(ShortStruct), TSeq(LongStruct), TSeq(E1), TSeq(E2)>>

Neg(n, w) == (0..(w - 1)) \ Bits(n - 1)
SignedSamples(w) ==
    <<{}, 0..(w - 1), Bits(42), Neg(42, w), 0..(w - 2), {w - 1}, {(w \div 2) - 1}>>
UnsignedSamples(w) == <<{}, {0}, Bits(15), Bits(16), 0..(w - 1), {w \div 2}>>
Widths == <<W8, W16, W32, W64, W128>>

\* A typed value to encode, or a byte string to take as it is.
Typed(ty, v) == [raw |-> FALSE, ty |-> ty, v |-> v, bytes |-> <<>>]
Raw(bytes) == [raw |-> TRUE, ty |-> TUnit, v |-> VUnitValue, bytes |-> bytes]

N32(n) == VInt(Bits(n))
VStr(bytes) == VBytesOf("str", bytes)

SignedWires ==
    [j \in 1..(5 * 7) |->
        Typed(TI(Widths[((j - 1) \div 7) + 1]),
             VInt(SignedSamples(Widths[((j - 1) \div 7) + 1])[((j - 1) % 7) + 1]))]
UnsignedWires ==
    [j \in 1..(5 * 6) |->
        Typed(TU(Widths[((j - 1) \div 6) + 1]),
             VInt(UnsignedSamples(Widths[((j - 1) \div 6) + 1])[((j - 1) % 6) + 1]))]

PrimitiveWires ==
    <<Typed(TBool, VBool(TRUE)), Typed(TBool, VBool(FALSE)),
      Typed(TChar, VChar(Bits(97))), Typed(TChar, VChar(Bits(24859))),
      Typed(TChar, VChar(Bits(1114111))),
      Typed(TStr, VStr(<<>>)), Typed(TStr, VStr(<<102, 111>>)),
      Typed(TStr, VStr(<<230, 132, 155>>)),
      Typed(TBytes, VBytesOf("bytes", <<>>)), Typed(TBytes, VBytesOf("bytes", <<255, 7>>)),
      Typed(TUnit, VUnitValue), Typed(TUnitStruct, VUnitValue),
      Typed(TF32, VBytesOf("f32", <<0, 0, 40, 66>>)),
      Typed(TF64, VBytesOf("f64", <<0, 0, 0, 0, 0, 0, 69, 64>>))>>

S3(a, b, c) == VSeq(<<N32(a), N32(b), N32(c)>>)
S2(a, b) == VSeq(<<N32(a), N32(b)>>)

CompositeWires ==
    <<Typed(TOption(I32), VNone), Typed(TOption(I32), VSome(N32(42))),
      Typed(TOption(TUnit), VSome(VUnitValue)),
      Typed(TOption(TOption(I32)), VSome(VNone)),
      Typed(TSeq(I32), VSeq(<<>>)), Typed(TSeq(I32), S3(1, 2, 3)),
      Typed(TSeq(I32), VSeq([j \in 1..16 |-> N32(j)])),
      Typed(TSeq(TU(W8)), S3(1, 2, 3)),
      Typed(TMap(TStr, I32), VMap(<<>>)),
      Typed(TMap(TStr, I32),
           VMap(<<VStr(<<102>>), N32(1), VStr(<<97, 98>>), N32(2)>>)),
      Typed(Tuple3, S3(1, 2, 3)),
      Typed(ShortStruct, S2(1, 2)), Typed(LongStruct, S3(1, 2, 3)),
      Typed(ShortTuple, S2(4, 5)), Typed(LongTuple, S3(4, 5, 6)),
      Typed(Narrow, VSeq(<<N32(7)>>)),
      Typed(Bar, VNewtypeStruct(N32(42))),
      Typed(Foo, VSeq(<<N32(42), VStr(<<102, 111>>), S3(1, 2, 3),
                       VSeq(<<VInt(Bits(43))>>)>>)),
      Typed(E, VVariant(0, <<>>)), Typed(E, VVariant(1, <<N32(42)>>)),
      Typed(E, VVariant(2, <<N32(42), N32(43)>>)),
      Typed(E, VVariant(3, <<N32(42), N32(43)>>)),
      Typed(E1, VVariant(1, <<VInt(Bits(43))>>)), Typed(E1, VVariant(2, <<>>)),
      Typed(E2, VVariant(0, <<N32(42)>>)), Typed(E2, VVariant(2, <<VStr(<<102, 111>>)>>)),
      Typed(Wide, VSeq(<<N32(9), VInt(0..(W128 - 1)),
                        VBytesOf("f32", <<0, 0, 40, 66>>),
                        VBytesOf("f64", <<0, 0, 0, 0, 0, 0, 69, 64>>),
                        VStr(<<102, 111>>), VSome(N32(7)),
                        VVariant(3, <<N32(1), N32(2)>>), S2(5, 6)>>)),
      Typed(TSeq(ShortStruct), VSeq(<<S2(1, 2), S2(4, 5)>>)),
      Typed(TSeq(LongStruct), VSeq(<<S3(1, 2, 3), S3(4, 5, 6)>>)),
      Typed(TSeq(E2), VSeq(<<VVariant(0, <<N32(42)>>), VVariant(2, <<VStr(<<102>>)>>),
                            VVariant(1, <<VInt(Bits(43))>>)>>))>>

\* Byte strings no encoder call produces: reserved wire types, over-long
\* varints, a sequence of odd length, a sequence that declares more
\* elements than follow.
RawWires ==
    <<Raw(<<6>>), Raw(<<7>>), Raw(<<27, 16, 32, 7>>), Raw(<<19, 16, 6>>),
      Raw(<<248, 255, 255, 255, 255, 255, 255, 255, 255, 127>>),
      Raw(<<248, 255, 255, 255, 255, 255, 255, 255, 255, 255, 1>>),
      Raw(<<248>> \o [j \in 1..17 |-> 255] \o <<127>>),
      Raw(<<248>> \o [j \in 1..18 |-> 255] \o <<1>>),
      Raw(<<5, 7>>), Raw(<<13, 6>>), Raw(<<5, 19, 0, 6>>),
      Raw(<<5, 19, 16, 32>>), Raw(<<5, 12, 102>>), Raw(<<5, 1, 0, 0, 40, 66>>),
      Raw(<<11, 28, 102>>), Raw(<<27, 16, 32>>), Raw(<<21, 16>>), Raw(<<45, 0>>)>>

Sources == SignedWires \o UnsignedWires \o PrimitiveWires \o CompositeWires \o RawWires

\* What the buffers are made from: to_bytes of each typed value, and the raw strings.
Wires ==
    [j \in 1..Len(Sources) |->
        IF Sources[j].raw THEN Sources[j]
        ELSE [Sources[j] EXCEPT !.bytes = to_bytes(Sources[j].ty, Sources[j].v)]]


\* The bytes that may follow an encoded value in the buffer.
ExtraBytes == {0, 255}
Extras == UNION {[1..n -> ExtraBytes] : n \in 0..MaxExtra}

\* ------------------------------------------------------------ state machine

VARIABLES
    data,       \* the buffer handed to from_bytes / from_bytes_more_data
    input,      \* Deserializer.input: the part of data not yet read
    stack,      \* the active calls: pending T::deserialize calls and live readers
    ret,        \* what the call that returned last has returned to its caller
    api,        \* the entry point called
    target,     \* the type T asked for
    wire,       \* what the buffer was made from (an entry of Wires)
    cut,        \* how many bytes of the encoding were cut off the end
    result,     \* what the entry point has returned
    drain_err,  \* the last error a failing skip raised inside Drop for SeqRead
    ev,         \* the handler that ran last, and what it saw
    subject,    \* what is being written: a value for to_writer, or the input of a wire.rs function
    writer,     \* the io::Write sink: the bytes committed and how many it can hold
    todo,       \* the write calls to_writer has still to make, in order
    outcome     \* what the encoder or the wire.rs function has returned

devars == <<data, input, stack, ret, api, target, wire, cut, result, drain_err, ev>>
envars == <<subject, writer, todo, outcome>>
vars == <<devars, envars>>

RetNone == [st |-> "none", val |-> VUnitValue, err |-> "none"]
RetOk(v) == [st |-> "ok", val |-> v, err |-> "none"]
RetErr(e) == [st |-> "err", val |-> VUnitValue, err |-> e]

Pending == [st |-> "pending", val |-> VUnitValue, err |-> "none", consumed |-> 0]

\* A frame of the call stack.
\*   f       "call": T::deserialize(&mut de) for ty has been called
\*           "some" / "newtype": visit_some / visit_newtype_struct waits for the inner value
\*           "seqread": a SeqRead owned by the visitor of ty (a sequence, tuple, struct, map)
\*           "variant": the SeqRead variant_seed returned, owned by visit_enum
\*   state   of the visitor: "visiting", "done" (it returned Ok), "failed" (Err)
\*   acc     the children delivered so far; got: how many of them came off the wire
\*   n       the length the sequence header declared; start: the offset of that header
Frame(f, ty, nread, nreturn, state, n, start) ==
    [f |-> f, ty |-> ty, nread |-> nread, nreturn |-> nreturn, state |-> state,
     acc |-> <<>>, got |-> 0, var |-> 0, err |-> "none", elemfail |-> FALSE,
     n |-> n, start |-> start]
Call(ty) == Frame("call", ty, 0, 0, "call", 0, 0)

Top == stack[Len(stack)]
Rest == SubSeq(stack, 1, Len(stack) - 1)
Cursor == Len(data) - Len(input)
FirstByte(s) == IF Len(s) = 0 THEN -1 ELSE s[1]

Event(op, ty) ==
    [op |-> op, ty |-> ty, tag |-> FirstByte(input), before |-> Len(input),
     n |-> 0, len |-> 0, got |-> 0, none |-> FALSE, start |-> 0, vok |-> FALSE,
     elemfail |-> FALSE, skiperr |-> "none", nskip |-> 0]

Running == result.st = "pending"
Calling(kinds) ==
    /\ Running
    /\ stack # <<>>
    /\ Top.f = "call"
    /\ Top.ty.k \in kinds
    /\ ret.st = "none"

\* One call on the sink: writer.write(bytes) or, when all, writer.write_all(bytes).
WriteCall(all, bytes) == [all |-> all, bytes |-> bytes]

\* What is written, or what a wire.rs function is applied to.
Subject(op, ty, v, tag, bits, w, bytes) ==
    [op |-> op, ty |-> ty, v |-> v, tag |-> tag, bits |-> bits, w |-> w, bytes |-> bytes]

\* A Vec<u8>, which takes every byte, or a &mut [u8] of cap bytes.
VecWriter == [vec |-> TRUE, buf |-> <<>>, cap |-> 0]
SliceWriter(cap) == [vec |-> FALSE, buf |-> <<>>, cap |-> cap]

NoOutcome ==
    [st |-> "pending", err |-> "none", bits |-> {}, back |-> {}, len |-> 0, wt |-> 0]

\* No encoder call is under way.
NoEncoder ==
    /\ subject = Subject("none", TUnit, VUnitValue, 0, {}, 0, <<>>)
    /\ writer = VecWriter
    /\ todo = <<>>
    /\ outcome = NoOutcome

\* Deserializer::from_bytes(data) and the call of T::deserialize(&mut de),
\* on the encoding of s less its last c bytes, followed by x.
Start(s, ty, x, c, a) ==
    /\ NoEncoder
    /\ c <= Len(s.bytes)
    /\ (c > 0 => x = <<>>)
    /\ wire = s
    /\ cut = c
    /\ data = TakeN(s.bytes, Len(s.bytes) - c) \o x
    /\ input = data
    /\ target = ty
    /\ api = a
    /\ stack = <<Call(ty)>>
    /\ ret = RetNone
    /\ result = Pending
    /\ drain_err = "none"
    /\ ev = [op |-> "init", ty |-> ty, tag |-> -1, before |-> 0,
             n |-> 0, len |-> 0, got |-> 0, none |-> FALSE, start |-> 0,
             vok |-> FALSE, elemfail |-> FALSE, skiperr |-> "none", nskip |-> 0]

Init ==
    \E w \in 1..Len(Wires), t \in 1..Len(Targets), x \in Extras,
       c \in 0..MaxCut, a \in {"from_bytes", "from_bytes_more_data"} :
        Start(Wires[w], Targets[t], x, c, a)

Return(r) ==
    /\ stack' = Rest
    /\ ret' = r

Replace(frame) == stack' = Rest \o <<frame>>
Push(frame, ty) == stack' = Rest \o <<frame, Call(ty)>>

\* What the visitor serde derives does once it holds the children in acc:
\* a struct or tuple visitor returns when every field has a value, a Vec or
\* map visitor asks again until it is told there is nothing more.
VisitorState(ty, acc) ==
    IF ty.k \in TupleKinds /\ Len(acc) >= Len(ty.elems) THEN "done" ELSE "visiting"

\* A field marked #[serde(default)]: the last ndef fields of the type.
HasDefault(ty, i) == ty.k \in TupleKinds /\ i > Len(ty.elems) - ty.ndef

\* T::deserialize for bool, the integers, char, floats, strings, byte
\* strings, unit, unit structs and IgnoredAny.
DeserializePrimitive ==
    /\ Calling(PrimitiveKinds)
    /\ \E r \in {deserialize_primitive(Top.ty, input)} :
        /\ input' = r.input
        /\ Return(IF r.ok THEN RetOk(r.val) ELSE RetErr(r.err))
        /\ ev' = [Event("deserialize", Top.ty) EXCEPT !.vok = r.ok]
    /\ UNCHANGED <<data, api, target, wire, cut, result, drain_err>>
    /\ UNCHANGED envars

\* deserialize_option: visit_none returns at once, visit_some decodes the inner value.
DeserializeOption ==
    /\ Calling({"option"})
    /\ \E r \in {deserialize_option(input)} :
        /\ input' = r.input
        /\ IF ~r.ok THEN Return(RetErr(r.err))
           ELSE IF ~r.some THEN Return(RetOk(VNone))
           ELSE /\ Push(Frame("some", Top.ty, 0, 0, "visiting", 0, Cursor), Top.ty.elems[1])
                /\ ret' = RetNone
        /\ ev' = [Event("deserialize", Top.ty) EXCEPT !.vok = r.ok]
    /\ UNCHANGED <<data, api, target, wire, cut, result, drain_err>>
    /\ UNCHANGED envars

\* visit_some once the inner value has returned.
VisitSome ==
    /\ Running /\ stack # <<>> /\ Top.f = "some" /\ ret.st # "none"
    /\ Return(IF ret.st = "ok" THEN RetOk(VSome(ret.val)) ELSE ret)
    /\ ev' = Event("visit_some", Top.ty)
    /\ UNCHANGED <<data, input, api, target, wire, cut, result, drain_err>>
    /\ UNCHANGED envars

\* deserialize_newtype_struct: visitor.visit_newtype_struct(self).
DeserializeNewtypeStruct ==
    /\ Calling({"newtype_struct"})
    /\ Push(Frame("newtype", Top.ty, 0, 0, "visiting", 0, Cursor), Top.ty.elems[1])
    /\ ret' = RetNone
    /\ ev' = Event("deserialize_newtype_struct", Top.ty)
    /\ UNCHANGED <<data, input, api, target, wire, cut, result, drain_err>>
    /\ UNCHANGED envars

\* visit_newtype_struct once the inner value has returned.
VisitNewtypeStruct ==
    /\ Running /\ stack # <<>> /\ Top.f = "newtype" /\ ret.st # "none"
    /\ Return(IF ret.st = "ok" THEN RetOk(VNewtypeStruct(ret.val)) ELSE ret)
    /\ ev' = Event("visit_newtype_struct", Top.ty)
    /\ UNCHANGED <<data, input, api, target, wire, cut, result, drain_err>>
    /\ UNCHANGED envars

\* The SeqRead a sequence header opened, handed to the visitor of ty.
Open(ty, r, n, start) ==
    Frame("seqread", ty, r.nread, r.nreturn, VisitorState(ty, <<>>), n, start)

\* The header part shared by deserialize_seq, deserialize_tuple and deserialize_map.
Header(r) ==
    /\ input' = r.input
    /\ IF r.ok THEN /\ Replace(Open(Top.ty, r, r.nread, Cursor))
                    /\ ret' = RetNone
       ELSE Return(RetErr(r.err))
    /\ ev' = [Event("deserialize", Top.ty) EXCEPT !.vok = r.ok, !.n = r.nread]
    /\ UNCHANGED <<data, api, target, wire, cut, result, drain_err>>

DeserializeSeq ==
    /\ Calling({"seq"})
    /\ Header(deserialize_seq(input))
    /\ UNCHANGED envars

\* deserialize_tuple, and deserialize_tuple_struct and deserialize_struct through it.
DeserializeTuple ==
    /\ Calling({"tuple", "tuple_struct", "struct"})
    /\ Header(CASE Top.ty.k = "tuple" -> deserialize_tuple(input, Len(Top.ty.elems))
                [] Top.ty.k = "tuple_struct" ->
                      deserialize_tuple_struct(input, Len(Top.ty.elems))
                [] Top.ty.k = "struct" -> deserialize_struct(input, Len(Top.ty.elems)))
    /\ UNCHANGED envars

DeserializeMap ==
    /\ Calling({"map"})
    /\ Header(deserialize_map(input))
    /\ UNCHANGED envars

\* deserialize_enum: visit_enum(self) asks for the variant first.
DeserializeEnum ==
    /\ Calling({"enum"})
    /\ \E r \in {variant_seed(input, Top.ty)} :
        /\ input' = r.input
        /\ IF r.ok
           THEN /\ Replace([Frame("variant", Top.ty, r.nread, r.nreturn, "visiting", 0, Cursor)
                               EXCEPT !.var = r.var])
                /\ ret' = RetNone
           ELSE Return(RetErr(r.err))
        /\ ev' = [Event("deserialize", Top.ty) EXCEPT !.vok = r.ok]
    /\ UNCHANGED <<data, api, target, wire, cut, result, drain_err>>
    /\ UNCHANGED envars

Reading(kinds) ==
    /\ Running
    /\ stack # <<>>
    /\ Top.f = "seqread"
    /\ Top.ty.k \in kinds
    /\ Top.state = "visiting"

\* The visitor asks for the next element or field. An exhausted reader
\* answers None: a Vec visitor returns, a struct visitor takes the field's
\* default or fails with invalid_length.
NextElementSeed ==
    /\ Reading(TupleKinds \cup {"seq"})
    /\ ret.st = "none"
    /\ LET r == next_element_seed(Top.nread, Top.nreturn)
           i == Len(Top.acc) + 1
           f == [Top EXCEPT !.nread = r.nread, !.nreturn = r.nreturn] IN
        /\ IF r.some THEN stack' = Rest \o <<f, Call(ChildType(Top.ty, i))>>
           ELSE IF Top.ty.k = "seq" THEN Replace([f EXCEPT !.state = "done"])
           ELSE IF HasDefault(Top.ty, i)
                THEN Replace([f EXCEPT !.acc = Append(Top.acc, DefaultValue(Top.ty.elems[i])),
                                       !.state = VisitorState(Top.ty, Append(Top.acc, VUnitValue))])
           ELSE Replace([f EXCEPT !.state = "failed", !.err = "Deserialization"])
        /\ ev' = [Event("next_element", Top.ty) EXCEPT !.none = ~r.some, !.n = Top.n,
                     !.got = Top.got, !.start = Top.start]
    /\ UNCHANGED <<data, input, ret, api, target, wire, cut, result, drain_err>>
    /\ UNCHANGED envars

\* The map visitor asks for the next key.
NextKeySeed ==
    /\ Reading({"map"})
    /\ ret.st = "none"
    /\ Len(Top.acc) % 2 = 0
    /\ LET r == next_key_seed(Top.nread, Top.nreturn)
           f == [Top EXCEPT !.nread = r.nread, !.nreturn = r.nreturn] IN
        /\ IF r.some THEN stack' = Rest \o <<f, Call(ChildType(Top.ty, 1))>>
           ELSE Replace([f EXCEPT !.state = "done"])
        /\ ev' = [Event("next_key", Top.ty) EXCEPT !.none = ~r.some, !.n = Top.n,
                     !.got = Top.got, !.start = Top.start]
    /\ UNCHANGED <<data, input, ret, api, target, wire, cut, result, drain_err>>
    /\ UNCHANGED envars

\* The map visitor asks for the value of the key it holds.
NextValueSeed ==
    /\ Reading({"map"})
    /\ ret.st = "none"
    /\ Len(Top.acc) % 2 = 1
    /\ LET r == next_value_seed(Top.nread, Top.nreturn)
           f == [Top EXCEPT !.nread = r.nread, !.nreturn = r.nreturn] IN
        /\ stack' = Rest \o <<f, Call(ChildType(Top.ty, 2))>>
        /\ ev' = [Event("next_value", Top.ty) EXCEPT !.n = Top.n, !.got = Top.got,
                     !.start = Top.start]
    /\ UNCHANGED <<data, input, ret, api, target, wire, cut, result, drain_err>>
    /\ UNCHANGED envars

\* seed.deserialize has returned inside next_element_seed, next_key_seed or
\* next_value_seed: Ok(Some(value)) goes to the visitor, an error leaves it
\* through `?`.
ElementReturn ==
    /\ Reading(TupleKinds \cup {"seq", "map"})
    /\ ret.st # "none"
    /\ IF ret.st = "ok"
       THEN Replace([Top EXCEPT !.acc = Append(Top.acc, ret.val), !.got = Top.got + 1,
                                !.state = VisitorState(Top.ty, Append(Top.acc, ret.val))])
       ELSE Replace([Top EXCEPT !.state = "failed", !.err = ret.err, !.elemfail = TRUE])
    /\ ret' = RetNone
    /\ ev' = [Event("element", Top.ty) EXCEPT !.vok = (ret.st = "ok"), !.n = Top.n,
                 !.got = Top.got, !.start = Top.start]
    /\ UNCHANGED <<data, input, api, target, wire, cut, result, drain_err>>
    /\ UNCHANGED envars

\* What the visitor returns from the children it holds.
VisitorValue(ty, acc) == IF ty.k = "map" THEN VMap(acc) ELSE VSeq(acc)

\* The visitor has returned, Ok or Err, and its SeqRead goes out of scope:
\* Drop for SeqRead runs, then the deserialize_* call returns the visitor's result.
DropSeqRead ==
    /\ Running
    /\ stack # <<>>
    /\ Top.f = "seqread"
    /\ Top.state \in {"done", "failed"}
    /\ \E d \in {drop(input, Top.nread)} :
        /\ input' = d.input
        /\ drain_err' = IF d.err # "none" THEN d.err ELSE drain_err
        /\ ev' = [Event("drop", Top.ty) EXCEPT !.n = Top.n, !.got = Top.got,
                     !.start = Top.start, !.elemfail = Top.elemfail,
                     !.vok = (Top.state = "done"), !.skiperr = d.err,
                     !.nskip = Top.nread - d.nread]
    /\ Return(IF Top.state = "done" THEN RetOk(VisitorValue(Top.ty, Top.acc))
              ELSE RetErr(Top.err))
    /\ UNCHANGED <<data, api, target, wire, cut, result>>
    /\ UNCHANGED envars

Accessing(kinds) ==
    /\ Running
    /\ stack # <<>>
    /\ Top.f = "variant"
    /\ Top.state = "visiting"
    /\ ret.st = "none"
    /\ Top.ty.elems[Top.var + 1].k \in kinds

\* visit_enum on a unit variant (the #[serde(other)] variant is one).
UnitVariant ==
    /\ Accessing({"unit_variant"})
    /\ \E r \in {unit_variant(Top.nread, input)} :
        /\ input' = r.input
        /\ Return(IF r.ok THEN RetOk(VVariant(Top.var, <<>>)) ELSE RetErr(r.err))
        /\ ev' = [Event("unit_variant", Top.ty) EXCEPT !.vok = r.ok]
    /\ UNCHANGED <<data, api, target, wire, cut, result, drain_err>>
    /\ UNCHANGED envars

\* visit_enum on a newtype variant: the payload is decoded next.
NewtypeVariantSeed ==
    /\ Accessing({"newtype_variant"})
    /\ stack' = Rest \o <<[Top EXCEPT !.nread = newtype_variant_seed(Top.nread),
                                      !.state = "accessed"],
                          Call(Top.ty.elems[Top.var + 1].elems[1])>>
    /\ ev' = Event("newtype_variant", Top.ty)
    /\ UNCHANGED <<data, input, ret, api, target, wire, cut, result, drain_err>>
    /\ UNCHANGED envars

\* visit_enum on a tuple or struct variant: the payload is a Sequence read
\* by a SeqRead of its own.
TupleVariant ==
    /\ Accessing({"tuple_variant", "struct_variant"})
    /\ \E vt \in {Top.ty.elems[Top.var + 1]} :
       \E r \in {IF vt.k = "tuple_variant"
                 THEN tuple_variant(Top.nread, input, Len(vt.elems))
                 ELSE struct_variant(Top.nread, input, Len(vt.elems))} :
        /\ input' = r.seq.input
        /\ IF r.seq.ok
           THEN /\ stack' = Rest \o <<[Top EXCEPT !.nread = r.nread, !.state = "accessed"],
                                      Open(vt, r.seq, r.seq.nread, Cursor)>>
                /\ ret' = RetNone
           ELSE Return(RetErr(r.seq.err))
        /\ ev' = [Event("deserialize", vt) EXCEPT !.vok = r.seq.ok, !.n = r.seq.nread]
    /\ UNCHANGED <<data, api, target, wire, cut, result, drain_err>>
    /\ UNCHANGED envars

\* The payload of a newtype, tuple or struct variant has returned; the
\* SeqRead that variant_seed made goes out of scope.
VariantReturn ==
    /\ Running
    /\ stack # <<>>
    /\ Top.f = "variant"
    /\ ret.st # "none"
    /\ \E d \in {drop(input, Top.nread)}, vt \in {Top.ty.elems[Top.var + 1]} :
        /\ input' = d.input
        /\ drain_err' = IF d.err # "none" THEN d.err ELSE drain_err
        /\ Return(IF ret.st = "err" THEN ret
                  ELSE IF vt.k = "newtype_variant" THEN RetOk(VVariant(Top.var, <<ret.val>>))
                  ELSE RetOk(VVariant(Top.var, ret.val.items)))
        /\ ev' = Event("variant_return", Top.ty)
    /\ UNCHANGED <<data, api, target, wire, cut, result>>
    /\ UNCHANGED envars

Returned(a) ==
    /\ Running
    /\ stack = <<>>
    /\ ret.st # "none"
    /\ api = a

\* lib.rs from_bytes, after the value's deserialize call.
FromBytes ==
    /\ Returned("from_bytes")
    /\ result' = from_bytes(ret, input)
    /\ ev' = [Event("from_bytes", target) EXCEPT !.vok = (ret.st = "ok")]
    /\ UNCHANGED <<data, input, stack, ret, api, target, wire, cut, drain_err>>
    /\ UNCHANGED envars

\* lib.rs from_bytes_more_data, after the value's deserialize call.
FromBytesMoreData ==
    /\ Returned("from_bytes_more_data")
    /\ result' = from_bytes_more_data(ret, data, input)
    /\ ev' = [Event("from_bytes_more_data", target) EXCEPT !.vok = (ret.st = "ok")]
    /\ UNCHANGED <<data, input, stack, ret, api, target, wire, cut, drain_err>>
    /\ UNCHANGED envars

Next ==
    \/ DeserializePrimitive
    \/ DeserializeOption
    \/ VisitSome
    \/ DeserializeNewtypeStruct
    \/ VisitNewtypeStruct
    \/ DeserializeSeq
    \/ DeserializeTuple
    \/ DeserializeMap
    \/ DeserializeEnum
    \/ NextElementSeed
    \/ NextKeySeed
    \/ NextValueSeed
    \/ ElementReturn
    \/ DropSeqRead
    \/ UnitVariant
    \/ NewtypeVariantSeed
    \/ TupleVariant
    \/ VariantReturn
    \/ FromBytes
    \/ FromBytesMoreData

Spec == Init /\ [][Next]_vars

\* ------------------------------------- the encoder and the wire.rs functions

\* Most bytes a &mut [u8] sink has room for.
MaxCap == 3
\* Longest run of continuation bytes handed to skip_varint.
MaxRun == 20

\* The call write_varint / write_varint_128 makes with the bytes it has
\* built: writer.write for the single byte of a value below 16,
\* writer.write_all for the local array otherwise.
VarintCall(bytes) == WriteCall(Len(bytes) > 1, bytes)

\* The calls on the sink that value.serialize(Serializer::new(w)) makes, in order.
RECURSIVE SerializeCalls(_, _)
RECURSIVE ElementCalls(_, _, _)
ElementCalls(ty, items, i) ==
    IF i > Len(items) THEN <<>>
    ELSE SerializeCalls(ChildType(ty, i), items[i]) \o ElementCalls(ty, items, i + 1)

SerializeCalls(ty, v) ==
    CASE ty.k \in {"bool", "i", "u", "char", "unit", "unit_struct"} ->
            <<VarintCall(Serialize(ty, v))>>
      [] ty.k \in {"f32", "f64"} -> <<WriteCall(TRUE, Serialize(ty, v))>>
      [] ty.k \in {"str", "bytes"} ->
            <<VarintCall(write_varint(WT_Bytes, Bits(Len(RawBytes(v))))),
              WriteCall(TRUE, RawBytes(v))>>
      [] ty.k = "option" ->
            IF v.k = "none"
            THEN <<VarintCall(write_varint(WT_Variant, Bits(0))), VarintCall(serialize_unit)>>
            ELSE <<VarintCall(write_varint(WT_Variant, Bits(1)))>>
                     \o SerializeCalls(ty.elems[1], v.items[1])
      [] ty.k = "newtype_struct" -> SerializeCalls(ty.elems[1], v.items[1])
      [] ty.k = "map" ->
            <<VarintCall(serialize_map(Len(v.items) \div 2))>> \o ElementCalls(ty, v.items, 1)
      [] ty.k \in {"seq", "tuple", "tuple_struct", "struct"} ->
            <<VarintCall(serialize_tuple(Len(v.items)))>> \o ElementCalls(ty, v.items, 1)
      [] ty.k = "enum" ->
            Let(ty.elems[AsUsize(v.bits) + 1], LAMBDA var :
            <<VarintCall(write_varint(WT_Variant, v.bits))>> \o
            CASE var.k = "unit_variant" -> <<VarintCall(serialize_unit)>>
              [] var.k = "newtype_variant" -> SerializeCalls(var.elems[1], v.items[1])
              [] OTHER -> <<VarintCall(serialize_tuple(Len(v.items)))>>
                              \o ElementCalls(var, v.items, 1))

\* io::Write::write on the sink: a Vec<u8> takes the whole buffer, a
\* &mut [u8] what it has room for; n is the count it returns.
io_write(w, buf) ==
    Let(IF w.vec THEN Len(buf) ELSE Min(Len(buf), w.cap - Len(w.buf)), LAMBDA n :
    [writer |-> [w EXCEPT !.buf = w.buf \o TakeN(buf, n)], n |-> n])

\* io::Write::write_all: write until nothing is left; a write that takes
\* no byte of a non-empty buffer is the error WriteZero.
io_write_all(w, buf) ==
    Let(io_write(w, buf), LAMBDA r : [writer |-> r.writer, ok |-> r.n = Len(buf)])

\* Integers of width w: no bit, one bit, a run of low bits, a run of high
\* bits, and 42, 84 and -42.
Samples(w) ==
    {{}, Bits(42), Bits(84), Neg(42, w)}
        \cup {{i} : i \in 0..(w - 1)}
        \cup {0..i : i \in 0..(w - 1)}
        \cup {i..(w - 1) : i \in 0..(w - 1)}

VarintTypes == {WT_Int, WT_Sequence, WT_Bytes, WT_Variant}

Writers == {VecWriter} \cup {SliceWriter(c) : c \in 0..MaxCap}

\* k continuation bytes with bit 7 set, then a stop byte or none, then
\* more bytes or none.
Run(k, stop, more) ==
    [i \in 1..k |-> IF i % 2 = 1 THEN 255 ELSE 128]
        \o (IF stop THEN <<5>> ELSE <<>>) \o (IF more THEN <<255, 0>> ELSE <<>>)

\* No decoder call is under way.
NoDecoder ==
    /\ data = <<>> /\ input = <<>> /\ stack = <<>>
    /\ ret = RetNone /\ api = "none" /\ target = TUnit
    /\ wire = Raw(<<>>) /\ cut = 0
    /\ result = Pending /\ drain_err = "none"
    /\ ev = [op |-> "init", ty |-> TUnit, tag |-> -1, before |-> 0,
             n |-> 0, len |-> 0, got |-> 0, none |-> FALSE, start |-> 0,
             vok |-> FALSE, elemfail |-> FALSE, skiperr |-> "none", nskip |-> 0]

\* to_writer(w, value) on a value of the catalogue; write_varint or
\* write_varint_128 on a sink; skip_varint on a tag byte and a buffer;
\* zigzag_encode / zigzag_decode and their 128-bit forms on an integer.
EncInit ==
    /\ NoDecoder
    /\ outcome = NoOutcome
    /\ \/ \E j \in 1..Len(Sources), sink \in Writers :
            /\ ~Sources[j].raw
            /\ subject = Subject("to_writer", Sources[j].ty, Sources[j].v, 0, {}, 0, <<>>)
            /\ writer = sink
            /\ todo = SerializeCalls(Sources[j].ty, Sources[j].v)
       \/ \E t \in VarintTypes, w \in {W64, W128}, sink \in Writers :
          \E value \in Samples(w) :
            /\ subject = Subject("write_varint", TUnit, VUnitValue, t, value, w, <<>>)
            /\ writer = sink
            /\ todo = <<VarintCall(IF w = W64 THEN write_varint(t, value)
                                   ELSE write_varint_128(t, value))>>
       \/ \E tagbyte \in {WT_Int + 8, WT_Int + 128, WT_Bytes + 248},
             k \in 0..MaxRun, stop \in BOOLEAN, more \in BOOLEAN :
            /\ subject = Subject("skip_varint", TUnit, VUnitValue, tagbyte, {}, 0,
                                 Run(k, stop, more))
            /\ writer = VecWriter
            /\ todo = <<>>
       \/ \E op \in {"zigzag_encode", "zigzag_decode"}, w \in {W64, W128} :
          \E value \in Samples(w) :
            /\ subject = Subject(op, TUnit, VUnitValue, 0, value, w, <<>>)
            /\ writer = VecWriter
            /\ todo = <<>>

Writing ==
    /\ subject.op \in {"to_writer", "write_varint"}
    /\ outcome.st = "pending"

\* writer.write(&[tag | partial])?: the count the sink returns is dropped.
Write ==
    /\ Writing /\ todo # <<>> /\ ~Head(todo).all
    /\ writer' = io_write(writer, Head(todo).bytes).writer
    /\ todo' = Tail(todo)
    /\ UNCHANGED <<subject, outcome>>
    /\ UNCHANGED devars

\* writer.write_all(..)?: an error leaves to_writer at once, as Error::IO.
WriteAll ==
    /\ Writing /\ todo # <<>> /\ Head(todo).all
    /\ \E r \in {io_write_all(writer, Head(todo).bytes)} :
        /\ writer' = r.writer
        /\ todo' = IF r.ok THEN Tail(todo) ELSE <<>>
        /\ outcome' = IF r.ok THEN outcome ELSE [outcome EXCEPT !.st = "err", !.err = "IO"]
    /\ UNCHANGED subject
    /\ UNCHANGED devars

\* to_writer, write_varint or write_varint_128 returns Ok(()).
ToWriter ==
    /\ Writing /\ todo = <<>>
    /\ outcome' = [outcome EXCEPT !.st = "ok"]
    /\ UNCHANGED <<subject, writer, todo>>
    /\ UNCHANGED devars

\* read_wiretype and read_varint / read_varint_128 on what write_varint /
\* write_varint_128 left in the Vec (wire.rs test_varint, test_varint_128).
ReadVarint ==
    /\ subject.op = "write_varint" /\ outcome.st = "ok" /\ writer.vec
    /\ \E r \in {IF subject.w = W64
                  THEN read_varint(writer.buf[1], DropN(writer.buf, 1))
                  ELSE read_varint_128(writer.buf[1], DropN(writer.buf, 1))} :
        outcome' = [st |-> IF r.ok THEN "read" ELSE "err", err |-> r.err,
                    bits |-> r.value, back |-> {}, len |-> r.len,
                    wt |-> read_wiretype(writer.buf[1])]
    /\ UNCHANGED <<subject, writer, todo>>
    /\ UNCHANGED devars

\* skip_varint(tagbyte, data).
SkipVarint ==
    /\ subject.op = "skip_varint" /\ outcome.st = "pending"
    /\ \E r \in {skip_varint(subject.tag, subject.bytes)} :
        outcome' = [outcome EXCEPT !.st = IF r.ok THEN "ok" ELSE "err",
                                   !.err = r.err, !.len = r.len]
    /\ UNCHANGED <<subject, writer, todo>>
    /\ UNCHANGED devars

\* zigzag_decode(zigzag_encode(value)), and the 128-bit pair.
ZigzagEncode ==
    /\ subject.op = "zigzag_encode" /\ outcome.st = "pending"
    /\ \E code \in {IF subject.w = W64 THEN zigzag_encode(subject.bits)
                     ELSE zigzag_encode_128(subject.bits)} :
        outcome' = [outcome EXCEPT !.st = "ok", !.bits = code,
                        !.back = IF subject.w = W64 THEN zigzag_decode(code)
                                 ELSE zigzag_decode_128(code)]
    /\ UNCHANGED <<subject, writer, todo>>
    /\ UNCHANGED devars

\* zigzag_encode(zigzag_decode(encoded)), and the 128-bit pair.
ZigzagDecode ==
    /\ subject.op = "zigzag_decode" /\ outcome.st = "pending"
    /\ \E value \in {IF subject.w = W64 THEN zigzag_decode(subject.bits)
                      ELSE zigzag_decode_128(subject.bits)} :
        outcome' = [outcome EXCEPT !.st = "ok", !.bits = value,
                        !.back = IF subject.w = W64 THEN zigzag_encode(value)
                                 ELSE zigzag_encode_128(value)]
    /\ UNCHANGED <<subject, writer, todo>>
    /\ UNCHANGED devars

EncNext ==
    \/ Write
    \/ WriteAll
    \/ ToWriter
    \/ ReadVarint
    \/ SkipVarint
    \/ ZigzagEncode
    \/ ZigzagDecode

EncSpec == EncInit /\ [][EncNext]_vars
\* --------------------------------------------------------------- properties

Done == result.st # "pending"
\* The buffer is the whole of to_bytes(v), followed by any extra bytes.
Clean == ~wire.raw /\ cut = 0
\* The buffer is to_bytes(v) and nothing else.
Exact == Clean /\ Len(data) = Len(wire.bytes)
SameType == target = wire.ty

SequenceKinds == TupleKinds \cup {"seq", "map"}

\* The byte runs <<first offset, offset past the end>> of the Sequence-typed
\* composites inside the encoding of v: v of type ty starts at offset base.
RECURSIVE Runs(_, _, _)
RECURSIVE ElementRuns(_, _, _, _)
ElementRuns(ty, items, i, pos) ==
    IF i > Len(items) THEN {}
    ELSE Runs(ChildType(ty, i), items[i], pos)
         \cup ElementRuns(ty, items, i + 1,
                          pos + Len(Serialize(ChildType(ty, i), items[i])))

Runs(ty, v, base) ==
    CASE ty.k \in SequenceKinds ->
            {<<base, base + Len(serialize_tuple(Len(v.items)))
                          + Len(serialize_elements(ty, v.items, 1))>>}
            \cup ElementRuns(ty, v.items, 1, base + Len(serialize_tuple(Len(v.items))))
      [] ty.k = "option" /\ v.k = "some" ->
            Runs(ty.elems[1], v.items[1], base + Len(write_varint(WT_Variant, Bits(1))))
      [] ty.k = "newtype_struct" -> Runs(ty.elems[1], v.items[1], base)
      [] ty.k = "enum" /\ ty.elems[AsUsize(v.bits) + 1].k = "newtype_variant" ->
            Runs(ty.elems[AsUsize(v.bits) + 1].elems[1], v.items[1],
                 base + Len(write_varint(WT_Variant, v.bits)))
      [] ty.k = "enum" /\ ty.elems[AsUsize(v.bits) + 1].k \in {"tuple_variant", "struct_variant"} ->
            Runs(ty.elems[AsUsize(v.bits) + 1], v,
                 base + Len(write_varint(WT_Variant, v.bits)))
      [] OTHER -> {}

WireRuns == Runs(wire.ty, wire.v, 0)

\* C1: from_bytes(to_bytes(v)), asked for v's own type, succeeds and returns v.
C1_RoundTrip ==
    (Done /\ api = "from_bytes" /\ Exact /\ SameType)
        => (result.st = "ok" /\ result.val = wire.v)

C1_Witness ==
    /\ Done /\ api = "from_bytes" /\ Exact /\ SameType
    /\ target = Wide
    /\ result.st = "ok"

\* C2: a tuple or struct of L fields read from a well-formed Sequence of
\* N > L elements gets the first L elements; the N - L others are skipped
\* when its reader is dropped, which leaves the cursor at the end of the
\* Sequence; a sequence of long structs read as a sequence of short structs
\* gives the first L fields of each.
C2_LongToShort ==
    /\ ( /\ ev.op = "drop" /\ Clean /\ ev.vok
         /\ ev.ty.k \in TupleKinds
         /\ ev.n > Len(ev.ty.elems)
         /\ \E run \in WireRuns : run[1] = ev.start )
       => ( /\ ev.got = Len(ev.ty.elems)
            /\ ev.nskip = ev.n - Len(ev.ty.elems)
            /\ ev.skiperr = "none"
            /\ <<ev.start, Cursor>> \in WireRuns )
    /\ (Done /\ Exact /\ wire.ty = TSeq(LongStruct) /\ target = TSeq(ShortStruct))
       => ( /\ result.st = "ok"
            /\ result.val = VSeq([j \in 1..Len(wire.v.items) |->
                                     VSeq(TakeN(wire.v.items[j].items, 2))]) )

C2_Witness ==
    /\ ev.op = "drop" /\ Clean /\ ev.vok
    /\ wire.ty = TSeq(LongStruct) /\ target = TSeq(ShortStruct)
    /\ ev.ty = ShortStruct /\ ev.n = 3 /\ ev.nskip = 1
    /\ ev.start > 1
    /\ <<ev.start, Cursor>> \in WireRuns

\* C3: a tuple or struct of L fields read from a Sequence of N < L elements
\* is given N elements, then None at every further request, and a request
\* answered None leaves the cursor where it was.
C3_ShortToLong ==
    (ev.op = "next_element" /\ ev.ty.k \in TupleKinds /\ ev.n < Len(ev.ty.elems))
        => ( /\ ev.none <=> ev.got = ev.n
             /\ ev.none => Len(input) = ev.before )

C3_Witness ==
    /\ ev.op = "next_element" /\ ev.none
    /\ ev.ty = Long2Struct /\ ev.n = 1 /\ ev.got = 1
    /\ stack # <<>> /\ Len(Top.acc) = 3

\* C4: skip, started at the first byte of to_bytes(v), succeeds and
\* consumes exactly len(to_bytes(v)) bytes.
C4_Skip ==
    (ev.op = "deserialize" /\ ev.ty = TIgnoredAny /\ target = TIgnoredAny /\ Clean)
        => (ev.vok /\ ev.before - Len(input) = Len(wire.bytes))

C4_Witness ==
    /\ ev.op = "deserialize" /\ ev.ty = TIgnoredAny /\ target = TIgnoredAny /\ Clean
    /\ wire.ty = TU(W128) /\ Len(wire.bytes) = 19
    /\ Cursor = 19

\* C5: from_bytes returns DataBeyondEnd exactly when the value decoded and
\* bytes are left over; on to_bytes(v), asked for v's type, it consumes the
\* whole buffer and succeeds.
C5_DataBeyondEnd ==
    (Done /\ api = "from_bytes")
        => ( /\ (result.err = "DataBeyondEnd") <=> (ret.st = "ok" /\ Cursor < Len(data))
             /\ (Exact /\ SameType) => (result.st = "ok" /\ Cursor = Len(data)) )

C5_Witness ==
    /\ Done /\ api = "from_bytes"
    /\ result.err = "DataBeyondEnd"
    /\ Clean /\ SameType /\ Len(data) > Len(wire.bytes)

\* C6: from_bytes_more_data on to_bytes(v) followed by any extra bytes
\* returns v and len(to_bytes(v)), whatever the extra bytes are.
C6_MoreData ==
    (Done /\ api = "from_bytes_more_data" /\ Clean /\ SameType)
        => ( /\ result.st = "ok"
             /\ result.val = wire.v
             /\ result.consumed = Len(wire.bytes) )

C6_Witness ==
    /\ Done /\ api = "from_bytes_more_data" /\ Clean /\ SameType
    /\ Len(data) > Len(wire.bytes)
    /\ result.st = "ok" /\ result.consumed = Len(wire.bytes)
    /\ target = Foo
\* The payload a varint carries, every bit of it: the tag byte gives bits
\* 0..3, each continuation byte seven bits more.
RECURSIVE PayloadLoop(_, _, _)
PayloadLoop(bytes, i, shift) ==
    IF i > Len(bytes) THEN {}
    ELSE {b + shift : b \in ByteBits(bytes[i] % 128)}
         \cup (IF bytes[i] < 128 THEN {} ELSE PayloadLoop(bytes, i + 1, shift + 7))

Payload(bytes) ==
    ByteBits((bytes[1] % 128) \div 8)
    \cup (IF bytes[1] < 128 THEN {} ELSE PayloadLoop(bytes, 2, 4))

\* The varint that starts the buffer has its last byte in the buffer.
Terminated(bytes) == \E i \in 1..Len(bytes) : bytes[i] < 128

\* C7: read_varint (through deserialize_u64) and read_varint_128 (through
\* deserialize_u128) return ValueOverflow for a varint whose payload has a
\* bit at or above the width, and otherwise return the payload whole.
C7_VarintBounds ==
    ( /\ ev.op = "deserialize" /\ ev.ty = target /\ target \in {TU(W64), TU(W128)}
      /\ ev.before = Len(data) /\ Len(data) > 0
      /\ read_wiretype(data[1]) = WT_Int
      /\ Terminated(data) )
    => IF \E b \in Payload(data) : b >= target.w
       THEN ret.st = "err" /\ ret.err = "ValueOverflow"
       ELSE ret.st = "ok" /\ ret.val.bits = Payload(data)

\* C8: when an element of a well-formed composite fails to decode, the
\* cursor is at the end of the composite once its reader has been dropped.
C8_DrainSynchronises ==
    ( /\ ev.op = "drop" /\ Clean /\ ev.elemfail
      /\ \E run \in WireRuns : run[1] = ev.start )
    => <<ev.start, Cursor>> \in WireRuns

\* C9: an error raised by skip while a reader drains what was not read
\* makes from_bytes / from_bytes_more_data return an error.
C9_ErrorsFatal ==
    (Done /\ drain_err # "none") => result.st = "err"

\* The wire types each deserialize_* method takes.
Permitted(ty) ==
    CASE ty.k \in {"i", "u"} /\ ty.w = W32 -> {WT_Int, WT_Fixed32}
      [] ty.k \in {"i", "u"} /\ ty.w = W64 -> {WT_Int, WT_Fixed64}
      [] ty.k \in {"i", "u"} -> {WT_Int}
      [] ty.k = "bool" -> {WT_Int, WT_Fixed64}
      [] ty.k = "char" -> {WT_Int, WT_Fixed32}
      [] ty.k \in {"f32", "f64"} -> {WT_Fixed32, WT_Fixed64}
      [] ty.k \in {"str", "bytes"} -> {WT_Bytes}
      [] ty.k \in {"option", "enum"} -> {WT_Variant}
      [] ty.k \in SequenceKinds -> {WT_Sequence}
      [] ty.k \in {"unit", "unit_struct", "ignored_any"} ->
            {WT_Int, WT_Fixed32, WT_Fixed64, WT_Sequence, WT_Bytes, WT_Variant}

\* C10: a typed decode that meets a tag byte whose wire type it does not
\* take returns UnexpectedWireType and has consumed the tag byte only.
C10_WireTypeDiscipline ==
    ( /\ ev.op = "deserialize" /\ ev.tag >= 0
      /\ read_wiretype(ev.tag) \notin Permitted(ev.ty) )
    => ( /\ ret.st = "err" /\ ret.err = "UnexpectedWireType"
         /\ Len(input) = ev.before - 1 )

C10_Witness ==
    /\ ev.op = "deserialize" /\ ev.tag >= 128
    /\ ev.ty.k = "str"
    /\ read_wiretype(ev.tag) = WT_Int
    /\ ev.before > 2
    /\ ret.err = "UnexpectedWireType"
    /\ Len(input) = ev.before - 1

\* The tag bytes met when `count` values are walked from the start of
\* bytes by the wire grammar: an Int is its varint, Fixed32 / Fixed64 are 4
\* and 8 bytes, Bytes a length and that many bytes, a Sequence a length and
\* that many values, a Variant a discriminant and one value.  The walk ends
\* at a reserved tag (which it records) and where the bytes run out.
RECURSIVE Walk(_, _)
WalkEnd(tags, rest, ok) == [tags |-> tags, rest |-> rest, ok |-> ok]
WalkOne(bytes) ==
    Let(bytes[1], LAMBDA tag :
    Let(DropN(bytes, 1), LAMBDA body :
    Let(read_varint(tag, body), LAMBDA n :
    CASE tag % 8 = WT_Int ->
            Let(skip_varint(tag, body), LAMBDA r :
            WalkEnd({tag}, DropN(body, r.len), r.ok))
      [] tag % 8 = WT_Fixed32 -> WalkEnd({tag}, DropN(body, 4), Len(body) >= 4)
      [] tag % 8 = WT_Fixed64 -> WalkEnd({tag}, DropN(body, 8), Len(body) >= 8)
      [] tag % 8 = WT_Bytes ->
            WalkEnd({tag}, DropN(body, n.len + AsUsize(n.value)),
                    n.ok /\ Len(body) >= n.len + AsUsize(n.value))
      [] tag % 8 \in {WT_Sequence, WT_Variant} ->
            IF ~n.ok THEN WalkEnd({tag}, body, FALSE)
            ELSE Let(Walk(DropN(body, n.len),
                          IF tag % 8 = WT_Variant THEN 1 ELSE AsUsize(n.value)),
                     LAMBDA w : WalkEnd({tag} \cup w.tags, w.rest, w.ok))
      [] OTHER -> WalkEnd({tag}, body, FALSE))))

Walk(bytes, count) ==
    IF count = 0 THEN WalkEnd({}, bytes, TRUE)
    ELSE IF bytes = <<>> THEN WalkEnd({}, bytes, FALSE)
    ELSE Let(WalkOne(bytes), LAMBDA h :
         IF ~h.ok THEN h
         ELSE Let(Walk(h.rest, count - 1), LAMBDA t :
              WalkEnd(h.tags \cup t.tags, t.rest, t.ok)))

\* What was left of the buffer when the handler that ran last began.
InputBefore == SubSeq(data, Len(data) - ev.before + 1, Len(data))

Reserved(tag) == tag % 8 \in {6, 7}

\* The handler that ran last is skip: a unit, unit struct or IgnoredAny
\* decode, or unit_variant.
SkipRan ==
    \/ ev.op = "deserialize" /\ ev.ty.k \in {"unit", "unit_struct", "ignored_any"}
    \/ ev.op = "unit_variant"

\* C11: skip returns UnexpectedWireType when it meets a tag byte of wire
\* type 6 or 7, at the top or in a nested Sequence or Variant child, through
\* a unit decode, a unit variant or the None of an Option; so does every
\* typed decode whose tag byte is one.
C11_ReservedWireTypes ==
    /\ (SkipRan /\ \E tag \in Walk(InputBefore, 1).tags : Reserved(tag))
          => (ret.st = "err" /\ ret.err = "UnexpectedWireType")
    /\ ( /\ ev.op = "deserialize" /\ ev.ty.k = "option" /\ ev.tag = WT_Variant
         /\ \E tag \in Walk(InputBefore, 1).tags : Reserved(tag) )
          => (ret.st = "err" /\ ret.err = "UnexpectedWireType")
    /\ (ev.op = "deserialize" /\ ev.tag >= 0 /\ Reserved(ev.tag))
          => (ret.st = "err" /\ ret.err = "UnexpectedWireType")

C11_Witness ==
    /\ ev.op = "deserialize" /\ ev.ty.k = "option"
    /\ InputBefore = <<5, 19, 0, 6>>
    /\ ret.err = "UnexpectedWireType"
    /\ input = <<>>

\* The length the Sequence header at the start of bytes declares.
DeclaredLength(bytes) == read_varint(bytes[1], DropN(bytes, 1))

\* deserialize_map ran last, on a Sequence header it could read.
MapHeader ==
    /\ ev.op = "deserialize" /\ ev.ty.k = "map"
    /\ ev.tag >= 0 /\ read_wiretype(ev.tag) = WT_Sequence
    /\ DeclaredLength(InputBefore).ok

\* C12: a map is decoded from a Sequence only; an odd declared length is
\* InvalidMap before any key is asked for; an even length 2N gives N
\* entries: next_key_seed and next_value_seed take turns, the keys and
\* the values come off the wire in its order, and the reader answers None
\* after the 2N-th child.
C12_MapDecode ==
    /\ (ev.op = "deserialize" /\ ev.ty.k = "map" /\ ev.tag >= 0
          /\ read_wiretype(ev.tag) # WT_Sequence)
          => (ret.st = "err" /\ ret.err = "UnexpectedWireType")
    /\ (MapHeader /\ AsUsize(DeclaredLength(InputBefore).value) % 2 = 1)
          => (ret.st = "err" /\ ret.err = "InvalidMap")
    /\ (MapHeader /\ AsUsize(DeclaredLength(InputBefore).value) % 2 = 0)
          => ( /\ ret.st = "none" /\ Top.f = "seqread" /\ Top.acc = <<>>
               /\ Top.n = AsUsize(DeclaredLength(InputBefore).value)
               /\ 2 * Top.nreturn = Top.n )
    /\ (ev.op = "next_key")
          => ( /\ ev.got % 2 = 0
               /\ ev.none <=> (ev.got = ev.n)
               /\ ~ev.none => Top = Call(ev.ty.elems[1]) )
    /\ (ev.op = "next_value")
          => (ev.got % 2 = 1 /\ ev.got < ev.n /\ Top = Call(ev.ty.elems[2]))
    /\ (ev.op = "element" /\ ev.ty.k = "map" /\ ev.vok /\ Clean /\ SameType)
          => (Top.acc = SubSeq(wire.v.items, 1, ev.got + 1))
    /\ (ev.op = "drop" /\ ev.ty.k = "map" /\ ev.vok)
          => (ret.st = "ok" /\ Len(ret.val.items) = ev.n /\ ev.nskip = 0)

C12_Witness ==
    /\ ev.op = "drop" /\ ev.ty.k = "map" /\ ev.vok
    /\ Clean /\ SameType
    /\ ev.n = 4
    /\ ret.val = wire.v

\* How many variants the identifier visitor of an enum knows by number:
\* all of them but a #[serde(other)] one.
Known(ty) == IF ty.other THEN Len(ty.elems) - 1 ELSE Len(ty.elems)

\* deserialize_enum ran last, on a Variant header whose discriminant fits a
\* u32 and is not one the receiving enum knows.
UnknownVariant ==
    /\ ev.op = "deserialize" /\ ev.ty.k = "enum"
    /\ ev.tag >= 0 /\ read_wiretype(ev.tag) = WT_Variant
    /\ DeclaredLength(InputBefore).ok
    /\ FitsUnsigned(DeclaredLength(InputBefore).value, W32)
    /\ AsUsize(DeclaredLength(InputBefore).value) >= Known(ev.ty)

\* C13: a discriminant the receiver does not know selects its
\* #[serde(other)] unit variant when it has one, and is a Deserialization
\* error when it has none; the other variant is returned once the
\* variant's one child, whatever its wire type, has been skipped whole, so
\* that the elements after it decode as they would have.
C13_EnumExtension ==
    /\ (UnknownVariant /\ ev.ty.other)
          => ( /\ ret.st = "none" /\ Top.f = "variant"
               /\ Top.var = Len(ev.ty.elems) - 1
               /\ ev.ty.elems[Top.var + 1].k = "unit_variant" )
    /\ (UnknownVariant /\ ~ev.ty.other)
          => (ret.st = "err" /\ ret.err = "Deserialization")
    /\ (ev.op = "unit_variant" /\ ev.ty = E1 /\ Walk(InputBefore, 1).ok)
          => ( /\ ret = RetOk(VVariant(Len(E1.elems) - 1, <<>>))
               /\ input = Walk(InputBefore, 1).rest )
    /\ (Done /\ Exact /\ wire.ty = TSeq(E2) /\ target = TSeq(E1))
          => ( /\ result.st = "ok"
               /\ result.val = VSeq(<<wire.v.items[1], VVariant(2, <<>>), wire.v.items[3]>>) )

C13_Witness ==
    /\ ev.op = "unit_variant" /\ ev.ty = E1
    /\ wire.ty = TSeq(E2) /\ target = TSeq(E1) /\ Exact
    /\ InputBefore[1] % 8 = WT_Bytes
    /\ ret = RetOk(VVariant(2, <<>>))
    /\ Len(input) > 0
    /\ input = Walk(InputBefore, 1).rest

\* The integer at the head of the buffer is the encoding of a value of an
\* integer type, and it has just been decoded as an integer type of the
\* same signedness.
Resizing ==
    /\ ev.op = "deserialize" /\ ev.ty.k \in {"i", "u"}
    /\ Clean /\ wire.ty.k = ev.ty.k
    /\ ev.before = Len(data)

\* Whether the value bits of an integer type `from` has a representation
\* in the type `to` of the same signedness, and that representation.
Representable(bits, from, to) ==
    IF from.k = "u" THEN FitsUnsigned(bits, to.w)
    ELSE from.w <= to.w \/ FitsSigned(bits, from.w, to.w)
Resized(bits, from, to) ==
    IF from.k = "u" THEN bits
    ELSE IF from.w <= to.w THEN SignExtend(bits, from.w, to.w)
    ELSE bits \cap (0..(to.w - 1))

\* C14: the encoding of a value of an integer type decodes as any integer
\* type of the same signedness: to the same value when the type read has
\* it, to ValueOverflow when it has not.
C14_IntegerResizing ==
    Resizing =>
        IF Representable(wire.v.bits, wire.ty, ev.ty)
        THEN ret = RetOk(VInt(Resized(wire.v.bits, wire.ty, ev.ty)))
        ELSE ret.st = "err" /\ ret.err = "ValueOverflow"

\* deserialize_unit or deserialize_unit_struct ran last.
UnitDecode == ev.op = "deserialize" /\ ev.ty.k \in {"unit", "unit_struct"}

\* C15: a unit or unit struct decoded where an encoded value starts, be it
\* an Int, Fixed32, Fixed64, Sequence, Bytes or Variant, succeeds and takes
\* that value's bytes and no other; a unit is written as the byte 00.
C15_UnitSkips ==
    /\ (UnitDecode /\ Clean /\ ev.before = Len(data))
          => (ret = RetOk(VUnitValue) /\ Cursor = Len(wire.bytes))
    /\ (UnitDecode /\ Walk(InputBefore, 1).ok)
          => (ret = RetOk(VUnitValue) /\ input = Walk(InputBefore, 1).rest)
    /\ (~wire.raw /\ wire.ty \in {TUnit, TUnitStruct}) => wire.bytes = <<0>>

C15_Witness ==
    /\ UnitDecode /\ ev.ty = TUnitStruct
    /\ Clean /\ ev.before = Len(data)
    /\ wire.ty = Wide
    /\ ret = RetOk(VUnitValue)
    /\ Cursor = Len(wire.bytes)
    /\ Len(input) = MaxExtra

\* The encodings of the fields of v, a value of the tuple or struct type
\* ty, one after the other from field i on.
RECURSIVE FieldBytes(_, _, _)
FieldBytes(ty, v, i) ==
    IF i > Len(ty.elems) THEN <<>>
    ELSE to_bytes(ty.elems[i], v.items[i]) \o FieldBytes(ty, v, i + 1)

\* The tuple, the tuple struct and the struct of the same field types.
Shapes(ty) == {TTuple(ty.elems), TTupleStruct(ty.elems, 0), TStruct(ty.elems, 0)}

\* The buffer holds the encoding of a tuple, tuple struct or struct.
TupleWire == ~wire.raw /\ wire.ty.k \in TupleKinds

\* The buffer has just been made from the value: the value and its bytes
\* stay as they are while it is decoded, so the encoder is looked at here.
Encoded == ~wire.raw /\ ev.op = "init"

\* C16: a tuple, a tuple struct and a struct of the same N field values
\* are written as the same bytes, a Sequence header of length N and then
\* the encodings of the fields in their order; each of them decodes as the
\* others.
C16_TupleShapes ==
    /\ (TupleWire /\ Encoded)
          => ( /\ \A shape \in Shapes(wire.ty) : to_bytes(shape, wire.v) = wire.bytes
               /\ Len(wire.ty.elems) < 16
               /\ wire.bytes = <<8 * Len(wire.ty.elems) + WT_Sequence>>
                                   \o FieldBytes(wire.ty, wire.v, 1) )
    /\ ( /\ Done /\ Exact /\ TupleWire
         /\ target.k \in TupleKinds /\ target.elems = wire.ty.elems )
          => (result.st = "ok" /\ result.val = wire.v)

C16_Witness ==
    /\ Done /\ Exact
    /\ wire.ty = LongStruct /\ target = Tuple3
    /\ wire.bytes = <<27, 16, 32, 48>>
    /\ result.st = "ok" /\ result.val = S3(1, 2, 3)

\* C17: a newtype struct is written as the value it holds and nothing
\* else, and read without a byte of its own: the encoding of a T decodes
\* as Newtype(T) and the encoding of a Newtype(T) as T.
C17_NewtypeTransparent ==
    /\ Encoded
          => to_bytes(TNewtype(wire.ty), VNewtypeStruct(wire.v)) = wire.bytes
    /\ (Encoded /\ wire.ty.k = "newtype_struct")
          => wire.bytes = to_bytes(wire.ty.elems[1], wire.v.items[1])
    /\ (ev.op \in {"deserialize_newtype_struct", "visit_newtype_struct"})
          => Len(input) = ev.before
    /\ (Done /\ Exact /\ target = TNewtype(wire.ty))
          => (result.st = "ok" /\ result.val = VNewtypeStruct(wire.v))
    /\ (Done /\ Exact /\ wire.ty = TNewtype(target))
          => (result.st = "ok" /\ result.val = wire.v.items[1])

C17_Witness ==
    /\ Done /\ Exact
    /\ wire.ty = I32 /\ target = Bar
    /\ wire.v = N32(42)
    /\ result.st = "ok" /\ result.val = VNewtypeStruct(N32(42))

\* deserialize_bool ran last, on the encoding of a value of an unsigned
\* integer type.
BoolFromUnsigned ==
    /\ ev.op = "deserialize" /\ ev.ty = TBool
    /\ Clean /\ wire.ty.k = "u"
    /\ ev.before = Len(data)

\* C18: false is written as the integer 0 and true as the integer 1; a bool
\* read from the encoding of an unsigned integer of any width is false
\* when the integer is zero and true when it is not.
C18_BoolFromUnsigned ==
    /\ (~wire.raw /\ wire.ty = TBool)
          => wire.bytes = to_bytes(TU(W8), VInt(IF 0 \in wire.v.bits THEN {0} ELSE {}))
    /\ BoolFromUnsigned => ret = RetOk(VBool(wire.v.bits # {}))

\* deserialize_option ran last, on a tag byte.
OptionDecode == ev.op = "deserialize" /\ ev.ty.k = "option" /\ ev.tag >= 0

\* The one-byte Variant headers of discriminant 0 and 1.
NoneTag == WT_Variant
SomeTag == 8 + WT_Variant

\* C19: an Option is read from a Variant only; discriminant 0 skips the one
\* child, whatever its wire type, and gives None; discriminant 1 has the
\* child decoded as the inner type and gives Some of it.  None is written
\* as the bytes 05 00, Some(x) as 0D and the encoding of x.
C19_OptionDecode ==
    /\ (OptionDecode /\ read_wiretype(ev.tag) # WT_Variant)
          => (ret.st = "err" /\ ret.err = "UnexpectedWireType")
    /\ (OptionDecode /\ ev.tag = NoneTag /\ Walk(DropN(InputBefore, 1), 1).ok)
          => ( /\ ret = RetOk(VNone)
               /\ input = Walk(DropN(InputBefore, 1), 1).rest )
    /\ (OptionDecode /\ ev.tag = SomeTag)
          => ( /\ ret.st = "none"
               /\ Len(input) = ev.before - 1
               /\ Top = Call(ev.ty.elems[1])
               /\ stack[Len(stack) - 1].f = "some" )
    /\ (ev.op = "visit_some" /\ ret.st = "ok") => ret.val.k = "some"
    /\ (~wire.raw /\ wire.ty.k = "option")
          => wire.bytes = IF wire.v = VNone THEN <<5, 0>>
                          ELSE <<13>> \o to_bytes(wire.ty.elems[1], wire.v.items[1])
    /\ (Done /\ Exact /\ wire.ty.k = "option" /\ SameType)
          => (result.st = "ok" /\ result.val = wire.v)

C19_Witness ==
    /\ OptionDecode /\ ev.tag = NoneTag
    /\ InputBefore[2] % 8 = WT_Sequence
    /\ ret = RetOk(VNone)
    /\ Len(input) = ev.before - 4
    /\ Len(input) > 0

\* A primitive integer decode ran last, on a tag byte.
IntDecode == ev.op = "deserialize" /\ ev.ty.k \in {"i", "u"} /\ ev.tag >= 0

\* The integer type whose little-endian representation a Fixed32 or
\* Fixed64 payload is, for a reader of the signedness of ty.
FixedType(ty, tag) ==
    [ty EXCEPT !.w = IF read_wiretype(tag) = WT_Fixed32 THEN W32 ELSE W64]

\* The bits of the fixed-width payload that follows the tag byte.
FixedBits(bytes, tag) ==
    from_le_bytes(SubSeq(bytes, 2, 1 + FixedType(TU(W8), tag).w \div 8), 1)

\* The integer decode that ran last met a whole Fixed32 or Fixed64 value.
FixedInt ==
    /\ IntDecode
    /\ read_wiretype(ev.tag) \in {WT_Fixed32, WT_Fixed64}
    /\ Len(InputBefore) >= 1 + FixedType(ev.ty, ev.tag).w \div 8

\* C20: an integer decode of width W takes the Int wire type; when W >= 32
\* it also takes Fixed32 and Fixed64, whose bytes are the little-endian
\* two's-complement value, narrowed to W with an overflow check; when
\* W < 32 it takes Int only; every other wire type is UnexpectedWireType.
C20_IntegerWireTypes ==
    /\ (IntDecode /\ read_wiretype(ev.tag) \notin {WT_Int, WT_Fixed32, WT_Fixed64})
          => (ret.st = "err" /\ ret.err = "UnexpectedWireType")
    /\ (IntDecode /\ ev.ty.w < W32 /\ read_wiretype(ev.tag) # WT_Int)
          => (ret.st = "err" /\ ret.err = "UnexpectedWireType")
    /\ (IntDecode /\ read_wiretype(ev.tag) = WT_Int)
          => ~(ret.st = "err" /\ ret.err = "UnexpectedWireType")
    /\ (FixedInt /\ ev.ty.w >= W32)
          => IF Representable(FixedBits(InputBefore, ev.tag),
                              FixedType(ev.ty, ev.tag), ev.ty)
             THEN ret = RetOk(VInt(Resized(FixedBits(InputBefore, ev.tag),
                                           FixedType(ev.ty, ev.tag), ev.ty)))
             ELSE ret.st = "err" /\ ret.err = "ValueOverflow"

\* write_varint or write_varint_128 has returned Ok on a Vec<u8>.
Written == subject.op = "write_varint" /\ writer.vec /\ outcome.st \in {"ok", "read"}

\* The 7 payload bits of the i-th byte written (the tag byte is the first),
\* at their place in the value.
Group(buf, i) == {b + 4 + 7 * (i - 2) : b \in ByteBits(buf[i] % 128)}

\* C21: write_varint writes a tag byte with the wire type in bits 0-2 and
\* the low 4 bits of the value in bits 3-6; a value below 16 is that one
\* byte with bit 7 clear; otherwise bit 7 is set and the rest of the value
\* follows 7 bits a byte, low group first, bit 7 set on all but the last
\* byte, which is not zero; a 64-bit value takes at most 10 bytes (u64::MAX
\* takes 10), a 128-bit value at most 19; 42_i32 is written A0 05.
C21_VarintFormat ==
    /\ Written =>
        /\ writer.buf[1] % 8 = subject.tag
        /\ ByteBits((writer.buf[1] \div 8) % 16) = subject.bits \cap (0..3)
        /\ (\A b \in subject.bits : b < 4)
              <=> (Len(writer.buf) = 1 /\ writer.buf[1] < 128)
        /\ Len(writer.buf) > 1 =>
              /\ writer.buf[1] >= 128
              /\ \A i \in 2..Len(writer.buf) :
                    /\ Group(writer.buf, i)
                          = subject.bits \cap ((4 + 7 * (i - 2))..(10 + 7 * (i - 2)))
                    /\ (writer.buf[i] >= 128) <=> (i < Len(writer.buf))
              /\ writer.buf[Len(writer.buf)] # 0
              /\ \A b \in subject.bits : b < 4 + 7 * (Len(writer.buf) - 1)
        /\ Len(writer.buf) <= (IF subject.w = W64 THEN 10 ELSE 19)
        /\ (subject.bits = 0..(W64 - 1)) => Len(writer.buf) = 10
        /\ (subject.bits = 0..(W128 - 1)) => Len(writer.buf) = 19
    /\ ( /\ subject.op = "to_writer" /\ writer.vec /\ outcome.st = "ok"
         /\ subject.ty = I32 /\ subject.v = N32(42) )
          => writer.buf = <<160, 5>>

C21_Witness ==
    /\ Written
    /\ subject.w = W64 /\ subject.tag = WT_Sequence
    /\ subject.bits = 0..(W64 - 1)
    /\ Len(writer.buf) = 10
    /\ writer.buf[10] = 15

\* read_wiretype and read_varint / read_varint_128 have been applied to the
\* bytes write_varint / write_varint_128 wrote.
ReadBack == subject.op = "write_varint" /\ writer.vec /\ outcome.st \in {"read", "err"}

\* C22: read_wiretype and read_varint applied to what write_varint(t, v)
\* wrote return t and (v, the number of bytes written less one), for the
\* wire types Int, Sequence, Bytes and Variant and 64-bit values v; so do
\* write_varint_128 and read_varint_128 for 128-bit values; u64::MAX takes
\* 10 bytes and u128::MAX 19.
C22_VarintRoundTrip ==
    ReadBack =>
        /\ outcome.st = "read"
        /\ outcome.wt = subject.tag
        /\ outcome.bits = subject.bits
        /\ outcome.len = Len(writer.buf) - 1
        /\ (subject.bits = 0..(subject.w - 1))
              => Len(writer.buf) = (IF subject.w = W64 THEN 10 ELSE 19)

C22_Witness ==
    /\ ReadBack /\ outcome.st = "read"
    /\ subject.w = W128 /\ subject.tag = WT_Variant
    /\ subject.bits = 0..(W128 - 1)
    /\ outcome.bits = 0..(W128 - 1)
    /\ outcome.len = 18

\* The zig-zag code of the w-bit signed integer with the one-bits v: 2v
\* when v >= 0, and -2v - 1, which is 2 * (NOT v) + 1, when v < 0.
ZigZag(v, w) ==
    IF (w - 1) \in v THEN {0} \cup {i + 1 : i \in (0..(w - 2)) \ v}
    ELSE {i + 1 : i \in v}

Zigzagged(op) == subject.op = op /\ outcome.st = "ok"

\* C23: zigzag_encode maps v >= 0 to 2v and v < 0 to -2v - 1, and
\* zigzag_decode undoes it, for every W-bit v with MIN and MAX among them
\* (W = 64 and 128); every unsigned code is the code of the value it
\* decodes to; the 64-bit and the 128-bit transforms agree on the values
\* that fit in 64 bits.
C23_ZigZag ==
    /\ Zigzagged("zigzag_encode") =>
        /\ outcome.bits = ZigZag(subject.bits, subject.w)
        /\ outcome.back = subject.bits
        /\ subject.w = W64 =>
              /\ zigzag_encode_128(SignExtend(subject.bits, W64, W128)) = outcome.bits
              /\ zigzag_decode_128(outcome.bits) = SignExtend(subject.bits, W64, W128)
    /\ Zigzagged("zigzag_decode") =>
        /\ outcome.back = subject.bits
        /\ ZigZag(outcome.bits, subject.w) = subject.bits
        /\ (subject.w = W128 /\ FitsUnsigned(subject.bits, W64))
              => SignExtend(zigzag_decode(subject.bits), W64, W128) = outcome.bits

C23_Witness ==
    /\ Zigzagged("zigzag_encode")
    /\ subject.w = W64
    /\ subject.bits = {W64 - 1}
    /\ outcome.bits = 0..(W64 - 1)
    /\ outcome.back = {W64 - 1}

\* skip_varint has returned.
Skipped == subject.op = "skip_varint" /\ outcome.st # "pending"

\* The places of the buffer, counted from 1, that hold a byte with bit 7 clear.
Stops(bytes) == {j \in 1..Len(bytes) : bytes[j] < 128}

\* C24: skip_varint returns 0 for a tag byte with bit 7 clear; otherwise
\* the number k of continuation bytes up to and with the first whose bit 7
\* is clear, when k <= 18; ValueOverflow when the first 18 continuation
\* bytes have bit 7 set and one more byte is there; UnexpectedEndOfInput
\* when the buffer ends before a stop byte.
C24_SkipVarint ==
    /\ (Skipped /\ subject.tag < 128) => (outcome.st = "ok" /\ outcome.len = 0)
    /\ (Skipped /\ subject.tag >= 128) =>
        /\ (\E k \in Stops(subject.bytes) : k <= 18)
              => ( /\ outcome.st = "ok"
                   /\ outcome.len \in Stops(subject.bytes)
                   /\ \A j \in Stops(subject.bytes) : outcome.len <= j )
        /\ ((\A k \in Stops(subject.bytes) : k > 18) /\ Len(subject.bytes) > 18)
              => (outcome.st = "err" /\ outcome.err = "ValueOverflow")
        /\ (Stops(subject.bytes) = {} /\ Len(subject.bytes) <= 18)
              => (outcome.st = "err" /\ outcome.err = "UnexpectedEndOfInput")

C24_Witness ==
    /\ Skipped /\ subject.tag >= 128
    /\ Len(subject.bytes) = 19
    /\ Stops(subject.bytes) = {19}
    /\ outcome.st = "err" /\ outcome.err = "ValueOverflow"

\* The buffer is a proper prefix of to_bytes(v), and v's own type is asked for.
Truncated == ~wire.raw /\ cut >= 1 /\ SameType

\* C25: from_bytes and from_bytes_more_data on a proper prefix of
\* to_bytes(v), the empty one too, decoded as the type of v, fail with
\* UnexpectedEndOfInput wherever the cut falls.
C25_TruncationDetected ==
    (Done /\ Truncated) => (result.st = "err" /\ result.err = "UnexpectedEndOfInput")

C25_Witness ==
    /\ Done /\ Truncated
    /\ wire.ty = Wide /\ cut = MaxCut
    /\ api = "from_bytes"
    /\ result.st = "err" /\ result.err = "UnexpectedEndOfInput"

\* The places the cursor can be at: data[i..] for every i up to the length.
Suffixes(s) == {DropN(s, i) : i \in 0..Len(s)}

\* self.input is a tail of the buffer: the cursor is at most its length.
WithinBuffer == Cursor \in 0..Len(data) /\ input = DropN(data, Cursor)

\* A buffer is handed in and nothing of it is read yet. read_varint,
\* skip_varint and skip see the bytes only, never the type asked for: they
\* are tried on each buffer once, where IgnoredAny is asked for.
Called == ev.op = "init" /\ target = TIgnoredAny

\* consume(len) is &self.input[len..]: wherever in the buffer the tag byte
\* is read, the length read_varint, read_varint_128 and skip_varint hand to
\* it is at most what is left after the tag.
SlicesInBounds ==
    Called => \A s \in Suffixes(data) :
        s # <<>> =>
            /\ Let(read_varint(s[1], Tail(s)), LAMBDA r : r.ok => r.len \in 0..(Len(s) - 1))
            /\ Let(read_varint_128(s[1], Tail(s)), LAMBDA r : r.ok => r.len \in 0..(Len(s) - 1))
            /\ Let(skip_varint(s[1], Tail(s)), LAMBDA r : r.ok => r.len \in 0..(Len(s) - 1))

\* skip, wherever it starts, leaves a tail of what it was given, shorter by
\* at least the tag byte when it returns Ok; on nothing it fails.
SkipAdvances ==
    Called => \A s \in Suffixes(data) :
        Let(skip(s), LAMBDA r :
            /\ r.input \in Suffixes(s)
            /\ r.ok => Len(r.input) < Len(s)
            /\ s = <<>> => (~r.ok /\ r.err = "UnexpectedEndOfInput"))

\* The live SeqRead values: those deserialize_seq, deserialize_tuple and
\* deserialize_map hand to a visitor, and those variant_seed returns.
Readers(kinds) == {j \in 1..Len(stack) : stack[j].f \in kinds}

\* The entry point has returned a value or an error, and nothing else.
Returns ==
    Done => \/ result.st = "ok"
            \/ result.st = "err" /\ result.err # "none"

Wrote == subject.op = "to_writer" /\ outcome.st = "ok"

\* C27: when to_writer returns Ok, the sink holds the whole encoding,
\* to_bytes of the value, in order, whatever the sink's single write calls
\* accept: a run of bytes is committed in full or to_writer returns the IO
\* error, for the one byte of a small varint as for the longer runs.
C27_CommittedInFull ==
    Wrote => writer.buf = to_bytes(subject.ty, subject.v)
====
